---- MODULE Spec2Model ----
(***************************************************************************)
(* Session & token lifecycle engine of gstoken: Engine (auth/engine.go),   *)
(* Service (auth service), SessionServiceImpl (auth/session.go), the key   *)
(* namespace (core/keys.go) and the storage port (storage/redis.go).       *)
(*                                                                         *)
(* Time is discrete; one tick stands for 12 hours, so the default token    *)
(* lifetime of 24h is 2 ticks and one remember-day is 2 ticks.             *)
(* A string that takes part in a storage key is a sequence of its          *)
(* colon-separated segments, so "gstoken:login:t1" is                      *)
(* <<"gstoken","login","t1">> and the empty string is <<"">>.              *)
(***************************************************************************)
EXTENDS Integers, Sequences, FiniteSets, TLC

\* ---------------------------------------------------------------- bounds
MaxTokens == 4
MaxConcTokens == 6
MaxWebTokens == 2
MaxRaceTokens == 2
MaxLoginRaceTokens == 3
MaxPanics == 1
Procs == {"p1", "p2"}
MaxTime == 3
UserIDs == {<<"u1">>, <<"u2">>}
Devices == {"web", "app"}
\* User ids and device labels are interchangeable, so the callers take them
\* up in this order: a later one logs in only after the earlier one has.
UserOrder == << <<"u1">>, <<"u2">> >>
DeviceOrder == <<"web", "app">>
RefreshExpireChoices == {0, 3}
RememberDaysChoices == {0, 1}

\* ------------------------------------------------------ program constants
TokenExpire == 2
DayTicks == 2
KeyPrefix == "gstoken"
SingleLogin == "SingleLogin"
MultiLogin == "MultiLogin"
MutexLogin == "MutexLogin"
LoginModes == {SingleLogin, MultiLogin, MutexLogin}

NoToken == ""
UnknownToken == "t0"
NoUser == <<"">>
NoError == ""

VARIABLES
    storage,    \* key -> [data, expireTime]; expireTime 0 means no expiry
    now,        \* the clock
    generated,  \* number of tokens the generator has produced
    config,     \* core.Config, fixed at construction
    issued,     \* history: token -> who it was issued to, when and as what
    inflight,   \* RefreshAccessToken calls between their read and their writes
    userRoleProvider,  \* PermissionService.userRoleProvider
    checked,    \* history: the last CheckPermission / CheckRole call, with
                \* its arguments, the provider it ran against and its result
    generator,  \* token.Generator: style and customFunc
    minted,     \* history: the last Generator.Generate call and its result
    handled,    \* history: the last request a middleware handled
    revoked,    \* history: the tokens an invalidating call has returned for
    memory,     \* MemoryStorage.data: key -> MemoryItem
    loading,    \* MemoryStorage.Get calls between their check and their delete
    cleanup,    \* the cleanupExpired goroutine
    scan        \* a RedisStorage.Keys call on a cluster: seen, keys and the
                \* per-master callbacks of ForEachMaster

authVars == <<storage, now, generated, config, issued, inflight>>

memVars == <<memory, loading, cleanup, scan>>

otherVars ==
    <<userRoleProvider, checked, generator, minted, handled, revoked, memVars>>

vars == <<authVars, otherVars>>

\* ------------------------------------------------------------ key service
LoginInfoKey(token) == <<KeyPrefix, "login", token>>

RefreshTokenKey(refreshToken) == <<KeyPrefix, "refresh", refreshToken>>

SessionKey(token) == <<KeyPrefix, "session", token>>

UserSessionKey(userID, token) == <<KeyPrefix, "user_session">> \o userID \o <<token>>

UserSessionPattern(userID) == <<KeyPrefix, "user_session">> \o userID \o <<"*">>

\* --------------------------------------------------------------- encoding
\* json.Marshal of a struct and of a string; json.Unmarshal into a struct
\* or a string fails on the other shape.
MarshalObject(v) == [kind |-> "object", body |-> v]

MarshalString(s) == [kind |-> "string", body |-> s]

UnmarshalObject(data) ==
    IF data.kind = "object" THEN [ok |-> TRUE, v |-> data.body]
    ELSE [ok |-> FALSE, v |-> data.body]

UnmarshalString(data) ==
    IF data.kind = "string" THEN [ok |-> TRUE, v |-> data.body]
    ELSE [ok |-> FALSE, v |-> NoToken]

\* ----------------------------------------------------------- storage port
\* The store expires a key natively once the clock has passed its expiry.
Expired(item, t) == item.expireTime # 0 /\ t > item.expireTime

StoreSet(st, key, data, expire, t) ==
    (key :> [data |-> data,
             expireTime |-> IF expire > 0 THEN t + expire ELSE 0]) @@ st

StoreGet(st, key, t) ==
    IF key \in DOMAIN st /\ ~Expired(st[key], t)
    THEN [ok |-> TRUE, data |-> st[key].data]
    ELSE [ok |-> FALSE, data |-> MarshalString(NoToken)]

StoreDelete(st, key) == [k \in DOMAIN st \ {key} |-> st[k]]

StoreExists(st, key, t) == key \in DOMAIN st /\ ~Expired(st[key], t)

MatchPattern(key, pattern) ==
    LET n == Len(pattern) - 1
    IN  /\ pattern[Len(pattern)] = "*"
        /\ Len(key) > n
        /\ \A i \in 1..n : key[i] = pattern[i]

StoreKeys(st, pattern, t) ==
    {k \in DOMAIN st : MatchPattern(k, pattern) /\ ~Expired(st[k], t)}

ExpireKeys(st, t) == [k \in {x \in DOMAIN st : ~Expired(st[x], t)} |-> st[k]]


\* -------------------------------------------------------- token generator
\* A built-in random format: every call returns a token not seen before.
Generate(n) == "t" \o ToString(n + 1)

\* The token styles, and the style-driven generator around the random source.
StyleUUID == "StyleUUID"
StyleUUIDSimple == "StyleUUIDSimple"
StyleRandom32 == "StyleRandom32"
StyleRandom64 == "StyleRandom64"
StyleRandom128 == "StyleRandom128"
StyleTik == "StyleTik"
StyleCustom == "StyleCustom"
TokenStyles ==
    {StyleUUID, StyleUUIDSimple, StyleRandom32, StyleRandom64, StyleRandom128,
     StyleTik, StyleCustom}

\* A nil custom function, and the two kinds of function a caller registers:
\* one that returns a token of its own and one that returns an error.
NoFunc == "nil"
CustomFuncs == {"returnsToken", "returnsError"}
CustomToken == "custom"
ErrCustomFuncNotRegistered == "custom function not registered"
ErrCustomFunc == "custom function error"

NewGenerator(style) == [style |-> style, customFunc |-> NoFunc]

Minted(token, err) == [token |-> token, err |-> err]

\* A custom style that hands out a built-in token when nothing is registered.
generateCustomFallsBack(g, n) ==
    IF g.customFunc = NoFunc THEN Minted(Generate(n), NoError)
    ELSE IF g.customFunc = "returnsToken" THEN Minted(CustomToken, NoError)
    ELSE Minted(NoToken, ErrCustomFunc)

generateCustom(g, n) ==
    IF g.customFunc = NoFunc THEN Minted(NoToken, ErrCustomFuncNotRegistered)
    ELSE IF g.customFunc = "returnsToken" THEN Minted(CustomToken, NoError)
    ELSE Minted(NoToken, ErrCustomFunc)

\* Generator.Generate: n random tokens were drawn before this call.
GeneratorGenerate(g, n) ==
    IF g.style = StyleCustom THEN generateCustom(g, n)
    ELSE Minted(Generate(n), NoError)

\* -------------------------------------------------------- session service
NewSession(token, userID, device, t) ==
    [id |-> token, user_id |-> userID, token |-> token, device |-> device,
     login_time |-> t, last_access |-> t]

\* The storage Sets of one call are numbered in the order the call makes them;
\* fault is the number of the Set that returns an error, 0 when none does. A
\* Set that returns an error writes nothing.
StorageFaults == 0 .. 5

CreateSessionUnder(st, session, t, fault) ==
    IF session.token = NoToken \/ session.user_id = NoUser
    THEN [st |-> st, ok |-> FALSE, n |-> 0]
    ELSE LET st1 == StoreSet(st, SessionKey(session.token),
                             MarshalObject(session), TokenExpire, t)
             st2 == StoreSet(st1, UserSessionKey(session.user_id, session.token),
                             MarshalString(session.token), TokenExpire, t)
         IN  IF fault = 1 THEN [st |-> st, ok |-> FALSE, n |-> 1]
             ELSE IF fault = 2 THEN [st |-> st1, ok |-> FALSE, n |-> 2]
             ELSE [st |-> st2, ok |-> TRUE, n |-> 2]

CreateSession(st, session, t) == CreateSessionUnder(st, session, t, 0)

GetSession(st, token, t) ==
    IF token = NoToken
    THEN [ok |-> FALSE, v |-> NewSession(NoToken, NoUser, "", 0), n |-> 0]
    ELSE LET g == StoreGet(st, SessionKey(token), t)
             u == UnmarshalObject(g.data)
         IN  IF g.ok /\ u.ok THEN [ok |-> TRUE, v |-> u.v, n |-> 1]
             ELSE [ok |-> FALSE, v |-> NewSession(NoToken, NoUser, "", 0), n |-> 1]

UpdateSession(st, session, t) ==
    IF session.token = NoToken THEN [st |-> st, ok |-> FALSE, n |-> 0]
    ELSE IF ~StoreExists(st, SessionKey(session.token), t)
    THEN [st |-> st, ok |-> FALSE, n |-> 1]
    ELSE [st |-> StoreSet(st, SessionKey(session.token),
                          MarshalObject(session), TokenExpire, t),
          ok |-> TRUE, n |-> 2]

\* A delete that reports a session it does not find as an error.
DeleteSessionStrict(st, token, t, fault) ==
    IF token = NoToken THEN [st |-> st, ok |-> FALSE, n |-> 0]
    ELSE LET s == GetSession(st, token, t)
         IN  IF ~s.ok THEN [st |-> st, ok |-> FALSE, n |-> s.n]
             ELSE [st |-> StoreDelete(StoreDelete(st, SessionKey(token)),
                                      UserSessionKey(s.v.user_id, token)),
                   ok |-> TRUE, n |-> s.n + 2]

\* The storage Deletes of one call are numbered like its Sets; a Delete that
\* returns an error removes nothing. Only the delete of the session key is
\* checked, the one of the index entry is not.
DeleteSessionUnder(st, token, t, fault) ==
    IF token = NoToken THEN [st |-> st, ok |-> FALSE, n |-> 0]
    ELSE LET s == GetSession(st, token, t)
             st1 == StoreDelete(st, SessionKey(token))
         IN  IF ~s.ok THEN [st |-> st, ok |-> TRUE, n |-> s.n]
             ELSE IF fault = 1 THEN [st |-> st, ok |-> FALSE, n |-> s.n + 1]
             ELSE IF fault = 2 THEN [st |-> st1, ok |-> TRUE, n |-> s.n + 2]
             ELSE [st |-> StoreDelete(st1, UserSessionKey(s.v.user_id, token)),
                   ok |-> TRUE, n |-> s.n + 2]

DeleteSession(st, token, t) == DeleteSessionUnder(st, token, t, 0)

\* The one element of a singleton set.
Only(S) == CHOOSE x \in S : TRUE

\* r with k more storage calls counted.
AddCalls(r, k) == [r EXCEPT !.n = @ + k]

\* The token an index entry holds: the JSON string, or the raw bytes when
\* they do not decode as one.
IndexedToken(data) ==
    LET u == UnmarshalString(data)
    IN  IF u.ok THEN u.v ELSE "raw"

RECURSIVE KickOutLoop(_, _, _)
KickOutLoop(st, keys, t) ==
    IF keys = {} THEN [st |-> st, n |-> 0]
    ELSE LET key == CHOOSE k \in keys : TRUE
             g == StoreGet(st, key, t)
         IN  Only({AddCalls(KickOutLoop(d.st, keys \ {key}, t), 1 + d.n) :
                   d \in {IF ~g.ok THEN [st |-> st, n |-> 0]
                          ELSE DeleteSession(st, IndexedToken(g.data), t)}})

\* A kick-out that validates the user id and deletes nothing.
KickOutNothing(st, userID, t) ==
    IF userID = NoUser THEN [st |-> st, ok |-> FALSE, n |-> 0]
    ELSE [st |-> st, ok |-> TRUE, n |-> 1]

KickOut(st, userID, t) ==
    IF userID = NoUser THEN [st |-> st, ok |-> FALSE, n |-> 0]
    ELSE LET l == KickOutLoop(st, StoreKeys(st, UserSessionPattern(userID), t), t)
         IN  [st |-> l.st, ok |-> TRUE, n |-> 1 + l.n]

\* ----------------------------------------------------------- auth service
NewLoginInfo(token, userID, device, t) ==
    [user_id |-> userID, token |-> token, device |-> device,
     login_time |-> t, last_access |-> t]

NewRefreshTokenInfo(refreshToken, userID, device, t, expiresAt) ==
    [refresh_token |-> refreshToken, user_id |-> userID, device |-> device,
     created_at |-> t, expires_at |-> expiresAt]

\* The login info written under the refresh-token key.
storeLoginInfoUnderRefreshKey(st, token, loginInfo, t) ==
    StoreSet(st, RefreshTokenKey(token), MarshalObject(loginInfo), TokenExpire, t)

storeLoginInfo(st, token, loginInfo, t) ==
    StoreSet(st, LoginInfoKey(token), MarshalObject(loginInfo), TokenExpire, t)

storeUserSessionMapping(st, userID, token, t) ==
    StoreSet(st, UserSessionKey(userID, token), MarshalString(token), TokenExpire, t)

\* A refresh token that is registered as a login as well.
storeRefreshTokenAsLogin(cfg, st, refreshToken, refreshInfo, t) ==
    LET c == CreateSession(st, NewSession(refreshToken, refreshInfo.user_id,
                                          refreshInfo.device, t), t)
        st1 == storeLoginInfo(c.st, refreshToken,
                              NewLoginInfo(refreshToken, refreshInfo.user_id,
                                           refreshInfo.device, t), t)
    IN  StoreSet(st1, RefreshTokenKey(refreshToken), MarshalObject(refreshInfo),
                 cfg.RefreshExpire, t)

storeRefreshToken(cfg, st, refreshToken, refreshInfo, t) ==
    StoreSet(st, RefreshTokenKey(refreshToken), MarshalObject(refreshInfo),
             cfg.RefreshExpire, t)

GetLoginInfo(st, token, t) ==
    LET g == StoreGet(st, LoginInfoKey(token), t)
        u == UnmarshalObject(g.data)
    IN  IF g.ok /\ u.ok THEN [ok |-> TRUE, v |-> u.v, n |-> 1]
        ELSE [ok |-> FALSE, v |-> NewLoginInfo(NoToken, NoUser, "", 0), n |-> 1]

getRefreshTokenInfo(st, refreshToken, t) ==
    LET g == StoreGet(st, RefreshTokenKey(refreshToken), t)
        u == UnmarshalObject(g.data)
    IN  IF g.ok /\ u.ok THEN [ok |-> TRUE, v |-> u.v, n |-> 1]
        ELSE [ok |-> FALSE, v |-> NewRefreshTokenInfo(NoToken, NoUser, "", 0, 0),
              n |-> 1]

RECURSIVE kickOutSameDeviceLoop(_, _, _, _)
kickOutSameDeviceLoop(st, keys, device, t) ==
    IF keys = {} THEN [st |-> st, n |-> 0]
    ELSE LET key == CHOOSE k \in keys : TRUE
             g == StoreGet(st, key, t)
             s == GetSession(st, IndexedToken(g.data), t)
         IN  Only({AddCalls(kickOutSameDeviceLoop(d.st, keys \ {key}, device, t),
                            1 + d.n) :
                   d \in {IF ~g.ok THEN [st |-> st, n |-> 0]
                          ELSE IF ~s.ok THEN [st |-> st, n |-> s.n]
                          ELSE IF s.v.device = device
                          THEN AddCalls(DeleteSession(st, s.v.token, t), s.n)
                          ELSE [st |-> st, n |-> s.n]}})

\* A same-device kick-out that forgets to compare the device label.
kickOutAnyDevice(st, userID, device, t) ==
    LET l == KickOutLoop(st, StoreKeys(st, UserSessionPattern(userID), t), t)
    IN  [st |-> l.st, ok |-> TRUE, n |-> 1 + l.n]

kickOutSameDevice(st, userID, device, t) ==
    LET l == kickOutSameDeviceLoop(st, StoreKeys(st, UserSessionPattern(userID), t),
                                   device, t)
    IN  [st |-> l.st, ok |-> TRUE, n |-> 1 + l.n]

\* A mode switch whose default branch kicks the user's sessions out as well.
handleLoginModeKickByDefault(cfg, st, req, t) ==
    CASE cfg.LoginMode = MutexLogin -> kickOutSameDevice(st, req.UserID, req.Device, t)
      [] OTHER -> KickOut(st, req.UserID, t)

handleLoginMode(cfg, st, req, t) ==
    CASE cfg.LoginMode = SingleLogin -> KickOut(st, req.UserID, t)
      [] cfg.LoginMode = MutexLogin -> kickOutSameDevice(st, req.UserID, req.Device, t)
      [] OTHER -> [st |-> st, ok |-> TRUE, n |-> 0]

\* A refresh lifetime that ignores remember-days.
LoginRefreshExpireNoRemember(cfg) ==
    IF cfg.RefreshExpire > 0 THEN cfg.RefreshExpire ELSE 0

\* The refresh lifetime Login uses: the refresh TTL, else remember-days x 24h.
LoginRefreshExpire(cfg) ==
    IF cfg.RefreshExpire > 0 THEN cfg.RefreshExpire
    ELSE IF cfg.RememberDays > 0 THEN cfg.RememberDays * DayTicks
    ELSE 0

NoResponse(gen) ==
    [ok |-> FALSE, Token |-> NoToken, RefreshToken |-> NoToken, UserID |-> NoUser,
     gen |-> gen]

\* Writes that carry on after a Set of the login info, the index entry or the
\* refresh token has failed.
LoginWritesUnchecked(cfg, st, req, token, refreshToken, refreshExpire, t, fault) ==
    LET c == CreateSessionUnder(st, NewSession(token, req.UserID, req.Device, t),
                                t, fault)
        st2 == IF fault = 3 THEN c.st
               ELSE storeLoginInfo(c.st, token,
                                   NewLoginInfo(token, req.UserID, req.Device, t), t)
        st3 == storeUserSessionMapping(st2, req.UserID, token, t)
        st4 == storeRefreshToken(cfg, st3, refreshToken,
                   NewRefreshTokenInfo(refreshToken, req.UserID, req.Device,
                                       t, t + refreshExpire), t)
    IN  IF ~c.ok THEN [st |-> c.st, ok |-> FALSE, n |-> c.n]
        ELSE IF refreshToken = NoToken THEN [st |-> st3, ok |-> TRUE, n |-> c.n + 2]
        ELSE [st |-> st4, ok |-> TRUE, n |-> c.n + 3]

\* Login from the session write on: CreateSession, the login info, the index
\* entry and, when a refresh token was minted, the refresh token. The first
\* Set that fails ends the call.
LoginWrites(cfg, st, req, token, refreshToken, refreshExpire, t, fault) ==
    LET c == CreateSessionUnder(st, NewSession(token, req.UserID, req.Device, t),
                                t, fault)
        st2 == storeLoginInfo(c.st, token,
                              NewLoginInfo(token, req.UserID, req.Device, t), t)
        st3 == storeUserSessionMapping(st2, req.UserID, token, t)
        st4 == storeRefreshToken(cfg, st3, refreshToken,
                   NewRefreshTokenInfo(refreshToken, req.UserID, req.Device,
                                       t, t + refreshExpire), t)
    IN  IF ~c.ok THEN [st |-> c.st, ok |-> FALSE, n |-> c.n]
        ELSE IF fault = 3 THEN [st |-> c.st, ok |-> FALSE, n |-> c.n + 1]
        ELSE IF fault = 4 THEN [st |-> st2, ok |-> FALSE, n |-> c.n + 2]
        ELSE IF refreshToken = NoToken THEN [st |-> st3, ok |-> TRUE, n |-> c.n + 2]
        ELSE IF fault = 5 THEN [st |-> st3, ok |-> FALSE, n |-> c.n + 3]
        ELSE [st |-> st4, ok |-> TRUE, n |-> c.n + 3]

\* Login with the token generator g and a storage that fails the fault-th Set.
ServiceLoginUnder(cfg, st, g, gen, req, t, fault) ==
    LET m == handleLoginMode(cfg, st, req, t)
        tk == GeneratorGenerate(g, gen)
        refreshExpire == LoginRefreshExpire(cfg)
        rt == IF refreshExpire > 0 THEN GeneratorGenerate(g, gen + 1)
              ELSE Minted(NoToken, NoError)
        gen1 == IF refreshExpire > 0 THEN gen + 2 ELSE gen + 1
        w == LoginWrites(cfg, m.st, req, tk.token, rt.token, refreshExpire, t, fault)
    IN  IF ~m.ok THEN [st |-> m.st, res |-> NoResponse(gen), n |-> m.n]
        ELSE IF tk.err # NoError \/ rt.err # NoError
        THEN [st |-> m.st, res |-> NoResponse(gen), n |-> m.n]
        ELSE IF ~w.ok THEN [st |-> w.st, res |-> NoResponse(gen1), n |-> m.n + w.n]
        ELSE [st |-> w.st,
              res |-> [ok |-> TRUE, Token |-> tk.token, RefreshToken |-> rt.token,
                       UserID |-> req.UserID, gen |-> gen1],
              n |-> m.n + w.n]

ServiceLogin(cfg, st, gen, req, t) ==
    ServiceLoginUnder(cfg, st, NewGenerator(StyleUUID), gen, req, t, 0)

\* Logout with a storage that fails the fault-th Delete of the call: the
\* index entry (unchecked), the two of DeleteSession, the login info.
ServiceLogoutUnder(st, token, t, fault) ==
    LET li == GetLoginInfo(st, token, t)
        k == IF li.ok THEN 1 ELSE 0
        st1 == IF li.ok /\ fault # 1
               THEN StoreDelete(st, UserSessionKey(li.v.user_id, token))
               ELSE st
        d == DeleteSessionUnder(st1, token, t, IF fault > k THEN fault - k ELSE 0)
        dels == IF GetSession(st1, token, t).ok THEN 2 ELSE 0
        n1 == li.n + k + d.n
    IN  IF ~d.ok THEN [st |-> d.st, ok |-> FALSE, n |-> n1]
        ELSE IF fault = k + dels + 1 THEN [st |-> d.st, ok |-> FALSE, n |-> n1 + 1]
        ELSE [st |-> StoreDelete(d.st, LoginInfoKey(token)), ok |-> TRUE,
              n |-> n1 + 1]

\* A logout that removes the user's index entry and nothing else.
ServiceLogoutIndexOnly(st, token, t) ==
    LET li == GetLoginInfo(st, token, t)
    IN  [st |-> IF li.ok THEN StoreDelete(st, UserSessionKey(li.v.user_id, token))
                ELSE st,
         ok |-> TRUE, n |-> li.n + (IF li.ok THEN 1 ELSE 0)]

ServiceLogout(st, token, t) == ServiceLogoutUnder(st, token, t, 0)

\* A batch that gives up at the first token it cannot resolve or delete.
RECURSIVE LogoutByUserIDLoopStopping(_, _, _, _, _)
LogoutByUserIDLoopStopping(st, keys, t, failKey, step) ==
    IF keys = {} THEN [st |-> st, n |-> 0]
    ELSE LET sessionKey == CHOOSE k \in keys : TRUE
             g == StoreGet(st, sessionKey, t)
             token == IndexedToken(g.data)
             failing == sessionKey = failKey
             x == DeleteSessionUnder(st, token, t,
                                     IF failing /\ step = "delete" THEN 1 ELSE 0)
         IN  Only({AddCalls(LogoutByUserIDLoopStopping(d.st, IF d.stop THEN {} ELSE keys \ {sessionKey}, t,
                                 failKey, step),
                            1 + d.n) :
                   d \in {IF ~g.ok \/ (failing /\ step = "get")
                          THEN [st |-> st, n |-> 0, stop |-> failing]
                          ELSE IF failing /\ step = "delete"
                          THEN [st |-> x.st, n |-> x.n + 2, stop |-> failing]
                          ELSE [st |-> StoreDelete(
                                         StoreDelete(x.st, LoginInfoKey(token)),
                                         sessionKey),
                                n |-> x.n + 2, stop |-> FALSE]}})

\* The loop of LogoutByUserID over the index entries of the user, with a
\* storage that fails for the entry failKey: its Get (step "get") or every
\* Delete made for its token (step "delete"). Each failure is skipped.
RECURSIVE LogoutByUserIDLoopUnder(_, _, _, _, _)
LogoutByUserIDLoopUnder(st, keys, t, failKey, step) ==
    IF keys = {} THEN [st |-> st, n |-> 0]
    ELSE LET sessionKey == CHOOSE k \in keys : TRUE
             g == StoreGet(st, sessionKey, t)
             token == IndexedToken(g.data)
             failing == sessionKey = failKey
             x == DeleteSessionUnder(st, token, t,
                                     IF failing /\ step = "delete" THEN 1 ELSE 0)
         IN  Only({AddCalls(LogoutByUserIDLoopUnder(d.st, IF d.stop THEN {} ELSE keys \ {sessionKey}, t,
                                 failKey, step),
                            1 + d.n) :
                   d \in {IF ~g.ok \/ (failing /\ step = "get")
                          THEN [st |-> st, n |-> 0, stop |-> FALSE]
                          ELSE IF failing /\ step = "delete"
                          THEN [st |-> x.st, n |-> x.n + 2, stop |-> FALSE]
                          ELSE [st |-> StoreDelete(
                                         StoreDelete(x.st, LoginInfoKey(token)),
                                         sessionKey),
                                n |-> x.n + 2, stop |-> FALSE]}})

NoKey == <<>>

LogoutByUserIDLoop(st, keys, t) == LogoutByUserIDLoopUnder(st, keys, t, NoKey, "none")

LogoutByUserIDUnder(st, userID, t, failKey, step) ==
    IF userID = NoUser THEN [st |-> st, ok |-> FALSE, n |-> 0]
    ELSE LET l == LogoutByUserIDLoopUnder(
                      st, StoreKeys(st, UserSessionPattern(userID), t), t,
                      failKey, step)
         IN  [st |-> l.st, ok |-> TRUE, n |-> 1 + l.n]

LogoutByUserID(st, userID, t) == LogoutByUserIDUnder(st, userID, t, NoKey, "none")

\* A refresh that leaves the exchanged refresh token in the store.
KeepOldRefreshToken(st, refreshToken) == st

\* "Delete the old refresh token", the step between minting and writing.
DeleteOldRefreshToken(st, refreshToken) ==
    StoreDelete(st, RefreshTokenKey(refreshToken))

\* RefreshAccessToken once the refresh info was read and found in date: mint
\* the two tokens, delete the old refresh token, write the new triple. A
\* token that cannot be minted ends the call before the delete, a Set that
\* fails ends it after.
RefreshWriteUnder(cfg, st, g, gen, refreshToken, refreshInfo, t, fault) ==
    LET newAccessToken == GeneratorGenerate(g, gen)
        newRefreshToken == GeneratorGenerate(g, gen + 1)
        st1 == DeleteOldRefreshToken(st, refreshToken)
        c == CreateSessionUnder(st1, NewSession(newAccessToken.token,
                                                refreshInfo.user_id, "", t),
                                t, fault)
        st2 == storeLoginInfo(c.st, newAccessToken.token,
                              NewLoginInfo(newAccessToken.token,
                                           refreshInfo.user_id, "", t), t)
        st3 == storeRefreshToken(cfg, st2, newRefreshToken.token,
                   NewRefreshTokenInfo(newRefreshToken.token, refreshInfo.user_id,
                                       refreshInfo.device, t, t + cfg.RefreshExpire), t)
        n1 == 1 + c.n
    IN  IF newAccessToken.err # NoError \/ newRefreshToken.err # NoError
        THEN [st |-> st, res |-> NoResponse(gen), n |-> 0]
        ELSE IF ~c.ok THEN [st |-> c.st, res |-> NoResponse(gen + 2), n |-> n1]
        ELSE IF fault = 3
        THEN [st |-> c.st, res |-> NoResponse(gen + 2), n |-> n1 + 1]
        ELSE IF fault = 4
        THEN [st |-> st2, res |-> NoResponse(gen + 2), n |-> n1 + 2]
        ELSE [st |-> st3,
              res |-> [ok |-> TRUE, Token |-> newAccessToken.token,
                       RefreshToken |-> newRefreshToken.token,
                       UserID |-> refreshInfo.user_id, gen |-> gen + 2],
              n |-> n1 + 2]

RefreshWrite(cfg, st, gen, refreshToken, refreshInfo, t) ==
    RefreshWriteUnder(cfg, st, NewGenerator(StyleUUID), gen, refreshToken,
                      refreshInfo, t, 0)

ErrRefreshTokenEmpty == "refresh token empty"
ErrGetRefreshTokenInfo == "get refresh token info failed"
ErrRefreshTokenExpired == "refresh token expired"
ErrRefreshWrite == "generate or store failed"

\* An exchange that does not look at expiresAt.
RefreshAccessTokenIgnoringExpiry(cfg, st, g, gen, refreshToken, t, fault) ==
    LET ri == getRefreshTokenInfo(st, refreshToken, t)
        w == RefreshWriteUnder(cfg, st, g, gen, refreshToken, ri.v, t, fault)
    IN  IF refreshToken = NoToken
        THEN [st |-> st, res |-> NoResponse(gen), n |-> 0,
              err |-> ErrRefreshTokenEmpty]
        ELSE IF ~ri.ok
        THEN [st |-> st, res |-> NoResponse(gen), n |-> ri.n,
              err |-> ErrGetRefreshTokenInfo]
        ELSE [st |-> w.st, res |-> w.res, n |-> ri.n + w.n,
              err |-> IF w.res.ok THEN NoError ELSE ErrRefreshWrite]

\* RefreshAccessToken with the token generator g and a storage that fails
\* the fault-th Set.
RefreshAccessTokenUnder(cfg, st, g, gen, refreshToken, t, fault) ==
    LET ri == getRefreshTokenInfo(st, refreshToken, t)
        w == RefreshWriteUnder(cfg, st, g, gen, refreshToken, ri.v, t, fault)
    IN  IF refreshToken = NoToken
        THEN [st |-> st, res |-> NoResponse(gen), n |-> 0,
              err |-> ErrRefreshTokenEmpty]
        ELSE IF ~ri.ok
        THEN [st |-> st, res |-> NoResponse(gen), n |-> ri.n,
              err |-> ErrGetRefreshTokenInfo]
        ELSE IF t > ri.v.expires_at
        THEN [st |-> StoreDelete(st, RefreshTokenKey(refreshToken)),
              res |-> NoResponse(gen), n |-> ri.n + 1,
              err |-> ErrRefreshTokenExpired]
        ELSE [st |-> w.st, res |-> w.res, n |-> ri.n + w.n,
              err |-> IF w.res.ok THEN NoError ELSE ErrRefreshWrite]

RefreshAccessToken(cfg, st, gen, refreshToken, t) ==
    RefreshAccessTokenUnder(cfg, st, NewGenerator(StyleUUID), gen, refreshToken, t, 0)

\* ----------------------------------------------------------------- engine
EngineLogin(cfg, st, gen, req, t) ==
    IF req.IsNil THEN [st |-> st, res |-> NoResponse(gen), n |-> 0]
    ELSE IF req.UserID = NoUser THEN [st |-> st, res |-> NoResponse(gen), n |-> 0]
    ELSE ServiceLogin(cfg, st, gen, req, t)

\* A logout that hands the empty token on to the auth service.
EngineLogoutUnchecked(st, token, t) == ServiceLogout(st, token, t)

EngineLogout(st, token, t) ==
    IF token = NoToken THEN [st |-> st, ok |-> FALSE, n |-> 0]
    ELSE ServiceLogout(st, token, t)

\* A renewal that writes the new access time to the login info as well.
RenewSessionAndLoginInfo(st, session, t) ==
    LET u == UpdateSession(st, [session EXCEPT !.last_access = t], t)
        li == GetLoginInfo(u.st, session.token, t)
    IN  [st |-> IF li.ok
                THEN storeLoginInfo(u.st, session.token,
                                    [li.v EXCEPT !.last_access = t], t)
                ELSE u.st,
         ok |-> u.ok, n |-> u.n + li.n + (IF li.ok THEN 1 ELSE 0)]

\* "Update the last access time": the session alone is written back, and a
\* failed write is ignored.
RenewLastAccess(st, session, t) ==
    UpdateSession(st, [session EXCEPT !.last_access = t], t)

\* What Verify returns: the checks before the renewal decide it alone.
VerifyResult(st, token, t) ==
    LET li == GetLoginInfo(st, token, t)
    IN  IF token = NoToken THEN [ok |-> FALSE, UserID |-> NoUser]
        ELSE IF ~li.ok THEN [ok |-> FALSE, UserID |-> NoUser]
        ELSE IF t > li.v.last_access + TokenExpire
        THEN [ok |-> FALSE, UserID |-> NoUser]
        ELSE IF ~GetSession(st, token, t).ok THEN [ok |-> FALSE, UserID |-> NoUser]
        ELSE [ok |-> TRUE, UserID |-> li.v.user_id]

\* The storage calls Verify makes up to the point where its result is decided.
VerifyReads(st, token, t) ==
    LET li == GetLoginInfo(st, token, t)
    IN  IF token = NoToken THEN 0
        ELSE IF ~li.ok THEN li.n
        ELSE IF t > li.v.last_access + TokenExpire THEN li.n
        ELSE li.n + GetSession(st, token, t).n

\* UpdateSession when its Set returns an error.
UpdateSessionFailing(st, session, t) ==
    IF session.token = NoToken THEN [st |-> st, ok |-> FALSE, n |-> 0]
    ELSE IF ~StoreExists(st, SessionKey(session.token), t)
    THEN [st |-> st, ok |-> FALSE, n |-> 1]
    ELSE [st |-> st, ok |-> FALSE, n |-> 2]

\* A Verify that hands a failed write-back on to its caller.
EngineVerifySurfacing(st, token, t, fault) ==
    LET r == VerifyResult(st, token, t)
        session == GetSession(st, token, t).v
        u == IF fault = 1
             THEN UpdateSessionFailing(st, [session EXCEPT !.last_access = t], t)
             ELSE RenewLastAccess(st, session, t)
    IN  [st |-> IF r.ok THEN u.st ELSE st,
         ok |-> r.ok /\ u.ok, UserID |-> IF u.ok THEN r.UserID ELSE NoUser,
         n |-> VerifyReads(st, token, t) + (IF r.ok THEN u.n ELSE 0)]

\* Verify with a storage that fails the fault-th Set of the call; the only
\* Set is the write-back of the session.
EngineVerifyUnder(st, token, t, fault) ==
    LET r == VerifyResult(st, token, t)
        session == GetSession(st, token, t).v
        u == IF fault = 1
             THEN UpdateSessionFailing(st, [session EXCEPT !.last_access = t], t)
             ELSE RenewLastAccess(st, session, t)
    IN  [st |-> IF r.ok THEN u.st ELSE st,
         ok |-> r.ok, UserID |-> r.UserID,
         n |-> VerifyReads(st, token, t) + (IF r.ok THEN u.n ELSE 0)]

EngineVerify(st, token, t) == EngineVerifyUnder(st, token, t, 0)

\* ----------------------------------------------------- permission service
PermissionWildcard == "*"

ErrUserIDEmpty == "ErrMsgUserIDEmpty"
ErrPermissionEmpty == "ErrMsgPermissionEmpty"
ErrRoleIDEmpty == "ErrMsgRoleIDEmpty"
ErrUserRoleProviderEmpty == "ErrMsgUserRoleProviderEmpty"
ErrGetUserRoles == "ErrMsgGetUserRoles"

\* A nil provider.
NoProvider == <<>>

\* The business-supplied provider: the role list, or an error, per user.
GetUserRoles(provider, userID) ==
    IF userID \in DOMAIN provider THEN provider[userID]
    ELSE [ok |-> TRUE, roles |-> <<>>]

Decision(allowed, err) == [allowed |-> allowed, err |-> err]

\* A permission that matches nothing but itself.
PermissionMatchesExact(perm, permission) == perm = permission

PermissionMatches(perm, permission) ==
    perm = permission \/ perm = PermissionWildcard

\* The two nested loops of CheckPermission, from role i and permission j on.
RECURSIVE RolesGrant(_, _, _, _)
RolesGrant(roles, permission, i, j) ==
    IF i > Len(roles) THEN FALSE
    ELSE IF j > Len(roles[i].Permissions)
    THEN RolesGrant(roles, permission, i + 1, 1)
    ELSE IF PermissionMatches(roles[i].Permissions[j], permission) THEN TRUE
    ELSE RolesGrant(roles, permission, i, j + 1)

CheckPermission(provider, userID, permission) ==
    IF userID = NoUser THEN Decision(FALSE, ErrUserIDEmpty)
    ELSE IF permission = "" THEN Decision(FALSE, ErrPermissionEmpty)
    ELSE IF provider = NoProvider THEN Decision(FALSE, ErrUserRoleProviderEmpty)
    ELSE LET a == GetUserRoles(provider, userID)
         IN  IF ~a.ok THEN Decision(FALSE, ErrGetUserRoles)
             ELSE Decision(RolesGrant(a.roles, permission, 1, 1), NoError)

\* The loop of CheckRole, from role i on.
RECURSIVE RolesInclude(_, _, _)
RolesInclude(roles, roleID, i) ==
    IF i > Len(roles) THEN FALSE
    ELSE IF roles[i].ID = roleID THEN TRUE
    ELSE RolesInclude(roles, roleID, i + 1)

\* A role check that answers "no" when no provider is set.
CheckRoleDeniesWithoutProvider(provider, userID, roleID) ==
    IF userID = NoUser THEN Decision(FALSE, ErrUserIDEmpty)
    ELSE IF roleID = "" THEN Decision(FALSE, ErrRoleIDEmpty)
    ELSE IF provider = NoProvider THEN Decision(FALSE, NoError)
    ELSE LET a == GetUserRoles(provider, userID)
         IN  IF ~a.ok THEN Decision(FALSE, ErrGetUserRoles)
             ELSE Decision(RolesInclude(a.roles, roleID, 1), NoError)

CheckRole(provider, userID, roleID) ==
    IF userID = NoUser THEN Decision(FALSE, ErrUserIDEmpty)
    ELSE IF roleID = "" THEN Decision(FALSE, ErrRoleIDEmpty)
    ELSE IF provider = NoProvider THEN Decision(FALSE, ErrUserRoleProviderEmpty)
    ELSE LET a == GetUserRoles(provider, userID)
         IN  IF ~a.ok THEN Decision(FALSE, ErrGetUserRoles)
             ELSE Decision(RolesInclude(a.roles, roleID, 1), NoError)

EngineCheckPermission(provider, userID, permission) ==
    IF userID = NoUser THEN Decision(FALSE, ErrUserIDEmpty)
    ELSE IF permission = "" THEN Decision(FALSE, ErrPermissionEmpty)
    ELSE CheckPermission(provider, userID, permission)

EngineCheckRole(provider, userID, roleID) == CheckRole(provider, userID, roleID)

\* ---------------------------------------------------------- web middleware
\* A request path is the sequence of its segments; a header is empty or a
\* prefix followed by a token.
BearerPrefix == "Bearer "
SkipPaths == {<<"public", "*">>}
PublicPath == <<"public", "health">>
ProtectedPath == <<"perm", "any">>
NoHeader == <<>>

extractToken(req) ==
    IF req.header # NoHeader /\ req.header[2] # NoToken
          /\ req.header[1] = BearerPrefix
    THEN req.header[2]
    ELSE req.query

shouldSkip(req) ==
    \E pat \in SkipPaths :
        \/ req.path = pat
        \/ /\ pat[Len(pat)] = "*"
           /\ Len(req.path) >= Len(pat) - 1
           /\ \A i \in 1..(Len(pat) - 1) : req.path[i] = pat[i]

\* The WebContext of one request: the user id stored under ContextKeyUserID
\* (NoUser while unset), whether the chain was aborted, the handlers invoked
\* so far, and the store as the calls made for the request have left it.
NewContext(st) == [userID |-> NoUser, aborted |-> FALSE, events |-> <<>>, st |-> st]

\* c.Next(): the downstream handler runs unless the chain was aborted.
CtxNext(c) ==
    IF c.aborted THEN c ELSE [c EXCEPT !.events = Append(@, "Next")]

\* The two configured handlers answer with AbortWithJSON.
UnauthorizedHandler(c) ==
    [c EXCEPT !.events = Append(@, "Unauthorized"), !.aborted = TRUE]

ForbiddenHandler(c) ==
    [c EXCEPT !.events = Append(@, "Forbidden"), !.aborted = TRUE]

\* Verify on behalf of the request, storing the user id when it succeeds.
VerifyInto(c, token, t) ==
    LET v == EngineVerify(c.st, token, t)
    IN  IF v.ok THEN [c EXCEPT !.userID = v.UserID, !.st = v.st] ELSE c

softAuth(c, req, t) ==
    IF extractToken(req) = NoToken THEN c
    ELSE VerifyInto(c, extractToken(req), t)

RequireAuth(c, req, t) ==
    IF shouldSkip(req) THEN CtxNext(softAuth(c, req, t))
    ELSE IF extractToken(req) = NoToken THEN UnauthorizedHandler(c)
    ELSE IF ~EngineVerify(c.st, extractToken(req), t).ok THEN UnauthorizedHandler(c)
    ELSE CtxNext(VerifyInto(c, extractToken(req), t))

\* One check of the loop: a permission or a role, granted without error.
Granted(provider, userID, kind, item) ==
    LET d == IF kind = "permission"
             THEN EngineCheckPermission(provider, userID, item)
             ELSE EngineCheckRole(provider, userID, item)
    IN  d.err = NoError /\ d.allowed

\* The loops of the four middlewares over the required items, from item i on.
RECURSIVE AnyGranted(_, _, _, _, _)
AnyGranted(provider, userID, kind, items, i) ==
    IF i > Len(items) THEN FALSE
    ELSE IF Granted(provider, userID, kind, items[i]) THEN TRUE
    ELSE AnyGranted(provider, userID, kind, items, i + 1)

RECURSIVE AllGranted(_, _, _, _, _)
AllGranted(provider, userID, kind, items, i) ==
    IF i > Len(items) THEN TRUE
    ELSE IF ~Granted(provider, userID, kind, items[i]) THEN FALSE
    ELSE AllGranted(provider, userID, kind, items, i + 1)

RequireAny(provider, kind, items, req, st, t) ==
    Only({IF c.userID # NoUser
          THEN IF AnyGranted(provider, c.userID, kind, items, 1) THEN CtxNext(c)
               ELSE ForbiddenHandler(c)
          ELSE CtxNext(c) :
          c \in {RequireAuth(NewContext(st), req, t)}})

RequireAll(provider, kind, items, req, st, t) ==
    Only({IF c.userID # NoUser /\ ~AllGranted(provider, c.userID, kind, items, 1)
          THEN ForbiddenHandler(c)
          ELSE CtxNext(c) :
          c \in {RequireAuth(NewContext(st), req, t)}})

RequireAnyPermission(provider, permissions, req, st, t) ==
    RequireAny(provider, "permission", permissions, req, st, t)

RequireAllPermissions(provider, permissions, req, st, t) ==
    RequireAll(provider, "permission", permissions, req, st, t)

RequireAnyRole(provider, roles, req, st, t) ==
    RequireAny(provider, "role", roles, req, st, t)

RequireAllRoles(provider, roles, req, st, t) ==
    RequireAll(provider, "role", roles, req, st, t)

\* ---------------------------------------------------------- state machine
Configs ==
    [LoginMode : LoginModes, AutoRenew : BOOLEAN,
     RefreshExpire : RefreshExpireChoices, RememberDays : RememberDaysChoices]

LoginRequest(userID, device) ==
    [IsNil |-> FALSE, UserID |-> userID, Device |-> device]

\* A nil *LoginRequest.
NilRequest == [IsNil |-> TRUE, UserID |-> NoUser, Device |-> ""]

\* What Verify(token) would return if it were called in the current state.
VerifyOk(token) == VerifyResult(storage, token, now).ok

VerifyUser(token) == VerifyResult(storage, token, now).UserID

\* What RefreshAccessToken(token) would return if it were called now.
RefreshOk(token) == RefreshAccessToken(config, storage, generated, token, now).res.ok

Tokens == DOMAIN issued

\* The tokens a caller may present: every issued one, the empty string and
\* one that was never issued.
TokenInputs == Tokens \cup {NoToken, UnknownToken}

AccessTokens == {tk \in Tokens : issued[tk].kind = "access"}

RefreshTokens == {tk \in Tokens : issued[tk].kind = "refresh"}

Issue(iss, token, userID, device, kind, from, t) ==
    IF token = NoToken THEN iss
    ELSE (token :> [user |-> userID, device |-> device, time |-> t,
                    kind |-> kind, from |-> from,
                    seq |-> Cardinality(DOMAIN iss) + 1]) @@ iss

\* The next id in an order may be used once every earlier one has been.
Introduced(order, used, x) ==
    \A i \in 1..Len(order) :
        order[i] = x => \A j \in 1..(i - 1) : order[j] \in used

LoginInputs ==
    {in \in (UserIDs \cup {NoUser}) \X Devices :
        /\ Introduced(UserOrder, {issued[tk].user : tk \in Tokens}, in[1])
        /\ Introduced(DeviceOrder, {issued[tk].device : tk \in Tokens}, in[2])}

\* The roles and providers the embedding service may supply.
AdminRole == [ID |-> "admin", Permissions |-> <<"*">>]

EditorRole == [ID |-> "editor", Permissions |-> <<"read", "write">>]

RoleLists == {<<>>, <<AdminRole>>, <<EditorRole>>, <<EditorRole, AdminRole>>}

ProviderAnswers ==
    {[ok |-> TRUE, roles |-> roles] : roles \in RoleLists}
        \cup {[ok |-> FALSE, roles |-> <<>>]}

Providers == [UserIDs -> ProviderAnswers]

PermissionInputs == {"", "read", "delete", "*"}

RoleInputs == {"", "admin", "viewer"}

NoCheck ==
    [op |-> "none", userID |-> NoUser, arg |-> "", provider |-> NoProvider,
     allowed |-> FALSE, err |-> NoError]

SetUserRoleProvider(provider) ==
    /\ userRoleProvider' = provider
    /\ UNCHANGED <<authVars, checked, generator, minted, handled, revoked, memVars>>

CheckPermissionCall(userID, permission) ==
    /\ LET d == EngineCheckPermission(userRoleProvider, userID, permission)
       IN  checked' = [op |-> "CheckPermission", userID |-> userID,
                       arg |-> permission, provider |-> userRoleProvider,
                       allowed |-> d.allowed, err |-> d.err]
    /\ UNCHANGED <<authVars, userRoleProvider, generator, minted, handled, revoked, memVars>>

CheckRoleCall(userID, roleID) ==
    /\ LET d == EngineCheckRole(userRoleProvider, userID, roleID)
       IN  checked' = [op |-> "CheckRole", userID |-> userID,
                       arg |-> roleID, provider |-> userRoleProvider,
                       allowed |-> d.allowed, err |-> d.err]
    /\ UNCHANGED <<authVars, userRoleProvider, generator, minted, handled, revoked, memVars>>

NoMint == [style |-> "none", customFunc |-> NoFunc, token |-> NoToken, err |-> NoError]

SetStyle(style) ==
    /\ generator' = [generator EXCEPT !.style = style]
    /\ UNCHANGED <<authVars, userRoleProvider, checked, minted, handled, revoked, memVars>>

\* Registering nil is refused and changes nothing.
RegisterCustomFunc(fn) ==
    /\ generator' = IF fn = NoFunc THEN generator
                    ELSE [generator EXCEPT !.customFunc = fn]
    /\ UNCHANGED <<authVars, userRoleProvider, checked, minted, handled, revoked, memVars>>

GenerateCall ==
    /\ generated < MaxTokens
    /\ LET m == GeneratorGenerate(generator, generated)
       IN  /\ minted' = [style |-> generator.style,
                         customFunc |-> generator.customFunc,
                         token |-> m.token, err |-> m.err]
           /\ generated' = IF generator.style = StyleCustom THEN generated
                           ELSE generated + 1
    /\ UNCHANGED <<storage, now, config, issued, inflight,
                   userRoleProvider, checked, generator, handled, revoked, memVars>>

\* The requests a client may send and the routes the application mounts.
Requests(tokens) ==
    [path : {PublicPath, ProtectedPath},
     header : {NoHeader} \cup {<<BearerPrefix, tk>> : tk \in tokens}
                         \cup {<<"", tk>> : tk \in tokens \ {NoToken}},
     query : {NoToken}]
        \cup [path : {ProtectedPath}, header : {NoHeader}, query : tokens]

Middlewares ==
    {"RequireAnyPermission", "RequireAllPermissions",
     "RequireAnyRole", "RequireAllRoles"}

RequiredItems(mw) ==
    IF mw \in {"RequireAnyPermission", "RequireAllPermissions"}
    THEN {<<"read", "write">>}
    ELSE {<<"admin", "editor">>}

NoRequest ==
    [mw |-> "none", skipped |-> FALSE, token |-> NoToken, authOk |-> FALSE,
     satisfied |-> FALSE, events |-> <<>>]

\* One request through one of the four middlewares. The history records
\* whether the path was skipped, whether Verify accepted the token when the
\* request arrived, and whether the permission or role condition holds for
\* the verified user.
Request(mw, items, req) ==
    /\ LET kind == IF mw \in {"RequireAnyPermission", "RequireAllPermissions"}
                   THEN "permission" ELSE "role"
           out == CASE mw = "RequireAnyPermission" ->
                       RequireAnyPermission(userRoleProvider, items, req, storage, now)
                    [] mw = "RequireAllPermissions" ->
                       RequireAllPermissions(userRoleProvider, items, req, storage, now)
                    [] mw = "RequireAnyRole" ->
                       RequireAnyRole(userRoleProvider, items, req, storage, now)
                    [] OTHER ->
                       RequireAllRoles(userRoleProvider, items, req, storage, now)
       IN  \E c \in {out}, v \in {VerifyResult(storage, extractToken(req), now)} :
           /\ storage' = c.st
           /\ handled' =
                [mw |-> mw, skipped |-> shouldSkip(req),
                 token |-> extractToken(req), authOk |-> v.ok,
                 satisfied |->
                    /\ v.ok
                    /\ IF mw \in {"RequireAnyPermission", "RequireAnyRole"}
                       THEN AnyGranted(userRoleProvider, v.UserID, kind, items, 1)
                       ELSE AllGranted(userRoleProvider, v.UserID, kind, items, 1),
                 events |-> c.events]
    /\ UNCHANGED <<now, generated, config, issued, inflight,
                   userRoleProvider, checked, generator, minted, revoked,
                   memVars>>

\* ------------------------------------------------------ in-process backend
\* MemoryStorage keeps the items in a concurrent map and removes expired ones
\* lazily: in Get, and in the cleanupExpired goroutine.
ZeroTime == 0

MemoryItem(value, expireTime) == [Value |-> value, ExpireTime |-> expireTime]

\* "!item.ExpireTime.IsZero() && now.After(item.ExpireTime)"
itemExpired(item, t) == item.ExpireTime # ZeroTime /\ t > item.ExpireTime

MemorySet(d, key, value, expire, t) ==
    (key :> MemoryItem(value, IF expire > 0 THEN t + expire ELSE ZeroTime)) @@ d

MemoryDelete(d, key) == [k \in DOMAIN d \ {key} |-> d[k]]

\* Get run to its end with no other call in between.
MemoryGet(d, key, t) ==
    IF key \notin DOMAIN d THEN [data |-> d, ok |-> FALSE, value |-> ""]
    ELSE IF itemExpired(d[key], t)
    THEN [data |-> MemoryDelete(d, key), ok |-> FALSE, value |-> ""]
    ELSE [data |-> d, ok |-> TRUE, value |-> d[key].Value]

MemoryExists(d, key, t) == MemoryGet(d, key, t).ok

\* The pattern "*", a pattern with a "*" (the key must start with what
\* precedes the first one), or a literal key.
RECURSIVE prefixBeforeStar(_)
prefixBeforeStar(pattern) ==
    IF pattern = <<>> \/ Head(pattern) = "*" THEN <<>>
    ELSE <<Head(pattern)>> \o prefixBeforeStar(Tail(pattern))

matchPattern(key, pattern) ==
    IF pattern = <<"*">> THEN TRUE
    ELSE IF \E i \in 1 .. Len(pattern) : pattern[i] = "*"
    THEN LET prefix == prefixBeforeStar(pattern)
         IN  /\ Len(key) >= Len(prefix)
             /\ SubSeq(key, 1, Len(prefix)) = prefix
    ELSE key = pattern

MemoryKeys(d, pattern) == {k \in DOMAIN d : matchPattern(k, pattern)}

\* A caller that is not inside Get, and the goroutine NewMemoryStorage starts.
NotLoading == [pc |-> "idle", key |-> <<>>]

NewCleanup == [pc |-> "waiting", now |-> 0, todo |-> {}, key |-> <<>>, panics |-> 0]

\* A goroutine that ends on a panic without starting another.
recoverWithoutRestart(c) ==
    [pc |-> "dead", now |-> 0, todo |-> {}, key |-> <<>>, panics |-> c.panics + 1]

\* The deferred recover of cleanupExpired: a fresh goroutine takes over.
recoverAndRestart(c) ==
    [pc |-> "waiting", now |-> 0, todo |-> {}, key |-> <<>>, panics |-> c.panics + 1]

MemSet(key, value, expire) ==
    /\ memory' = MemorySet(memory, key, value, expire, now)
    /\ UNCHANGED <<authVars, userRoleProvider, checked, generator, minted,
                   handled, revoked, loading, cleanup, scan>>

MemDelete(key) ==
    /\ key \in DOMAIN memory
    /\ memory' = MemoryDelete(memory, key)
    /\ UNCHANGED <<authVars, userRoleProvider, checked, generator, minted,
                   handled, revoked, loading, cleanup, scan>>

\* Get up to its expiry check: a caller that loaded an expired item goes on
\* to delete the key, every other caller returns at once.
MemGetLoad(p, key) ==
    /\ loading[p].pc = "idle"
    /\ key \in DOMAIN memory
    /\ itemExpired(memory[key], now)
    /\ loading' = [loading EXCEPT ![p] = [pc |-> "delete", key |-> key]]
    /\ UNCHANGED <<authVars, userRoleProvider, checked, generator, minted,
                   handled, revoked, memory, cleanup, scan>>

\* "m.data.Delete(key)": whatever the key holds by now is removed.
MemGetDelete(p) ==
    /\ loading[p].pc = "delete"
    /\ memory' = MemoryDelete(memory, loading[p].key)
    /\ loading' = [loading EXCEPT ![p] = NotLoading]
    /\ UNCHANGED <<authVars, userRoleProvider, checked, generator, minted,
                   handled, revoked, cleanup, scan>>

\* The ticker fires: the goroutine reads the clock and starts to range over
\* the map.
CleanupTick ==
    /\ cleanup.pc = "waiting"
    /\ cleanup' = [cleanup EXCEPT !.pc = "ranging", !.now = now,
                                  !.todo = DOMAIN memory]
    /\ UNCHANGED <<authVars, userRoleProvider, checked, generator, minted,
                   handled, revoked, memory, loading, scan>>

\* The range callback for one key: the expiry check on the item it was
\* handed. With no key left the goroutine waits for the next tick.
CleanupVisit ==
    /\ cleanup.pc = "ranging"
    /\ IF cleanup.todo = {}
       THEN cleanup' = [cleanup EXCEPT !.pc = "waiting"]
       ELSE \E key \in cleanup.todo :
               cleanup' =
                  IF key \in DOMAIN memory /\ itemExpired(memory[key], cleanup.now)
                  THEN [cleanup EXCEPT !.pc = "deleting", !.key = key]
                  ELSE [cleanup EXCEPT !.todo = @ \ {key}]
    /\ UNCHANGED <<authVars, userRoleProvider, checked, generator, minted,
                   handled, revoked, memory, loading, scan>>

\* The callback's "m.data.Delete(key)".
CleanupDelete ==
    /\ cleanup.pc = "deleting"
    /\ memory' = MemoryDelete(memory, cleanup.key)
    /\ cleanup' = [cleanup EXCEPT !.pc = "ranging", !.key = <<>>,
                                  !.todo = @ \ {cleanup.key}]
    /\ UNCHANGED <<authVars, userRoleProvider, checked, generator, minted,
                   handled, revoked, loading, scan>>

\* A panic inside a sweep, caught by the deferred function.
CleanupPanic ==
    /\ cleanup.pc \in {"ranging", "deleting"}
    /\ cleanup.panics < MaxPanics
    /\ cleanup' = recoverAndRestart(cleanup)
    /\ UNCHANGED <<authVars, userRoleProvider, checked, generator, minted,
                   handled, revoked, memory, loading, scan>>

\* ------------------------------------------------- remote backend: Keys
\* The masters of the cluster, and what SCAN returns on each: a list of
\* pages of matching keys, the last of which comes with cursor 0. SCAN may
\* return a key more than once.
Masters == {"m1", "m2"}

MasterOrder == <<"m1", "m2">>

ScanLayouts ==
    {[m1 |-> <<<<"k1", "k2">>, <<"k2">>>>, m2 |-> <<<<"k3">>>>],
     [m1 |-> <<<<"k1">>>>, m2 |-> <<<<"k2">>, <<"k3">>>>]}

\* ForEachMaster calls the function for the masters one after another or
\* from one goroutine per master.
ScanModes == {"sequential", "concurrent"}

NewCallback == [pc |-> "scan", cursor |-> 0, next |-> 0, res |-> <<>>, len |-> 0]

\* No Keys call yet. The keys slice is its backing array and its length.
NoScan ==
    [active |-> FALSE, mode |-> "sequential", pages |-> [m \in Masters |-> <<>>],
     seen |-> {}, array |-> <<>>, len |-> 0,
     callback |-> [m \in Masters |-> [NewCallback EXCEPT !.pc = "done"]]]

\* The slice Keys returns.
ScanKeys == SubSeq(scan.array, 1, scan.len)

ScanDone == \A m \in Masters : scan.callback[m].pc = "done"

\* The callback of master m may run: always when each master has its own
\* goroutine, after the masters before it otherwise.
MayRun(m) ==
    \/ scan.mode = "concurrent"
    \/ \A i \in 1 .. Len(MasterOrder) :
          MasterOrder[i] = m
          => \A j \in 1 .. (i - 1) : scan.callback[MasterOrder[j]].pc = "done"

KeysStart(layout, mode) ==
    /\ ScanDone
    /\ scan' = [active |-> TRUE, mode |-> mode, pages |-> layout,
                seen |-> {}, array |-> <<>>, len |-> 0,
                callback |-> [m \in Masters |-> NewCallback]]
    /\ UNCHANGED <<authVars, userRoleProvider, checked, generator, minted,
                   handled, revoked, memory, loading, cleanup>>

\* "cli.Scan(ctx, cursor, pattern, 1000)" on master m.
CallbackScan(m) ==
    /\ scan.callback[m].pc = "scan"
    /\ MayRun(m)
    /\ LET cb == scan.callback[m]
           pages == scan.pages[m]
       IN  scan' = [scan EXCEPT !.callback[m] =
                      [cb EXCEPT !.pc = "check",
                                 !.res = pages[cb.cursor + 1],
                                 !.next = IF cb.cursor + 1 = Len(pages) THEN 0
                                          ELSE cb.cursor + 1]]
    /\ UNCHANGED <<authVars, userRoleProvider, checked, generator, minted,
                   handled, revoked, memory, loading, cleanup>>

\* The loop over the page: the lookup of the next key in seen; at the end of
\* the page the cursor moves on, or the callback returns when it is 0.
CallbackCheck(m) ==
    /\ scan.callback[m].pc = "check"
    /\ MayRun(m)
    /\ LET cb == scan.callback[m]
       IN  scan' = [scan EXCEPT !.callback[m] =
                      IF cb.res = <<>>
                      THEN IF cb.next = 0 THEN [cb EXCEPT !.pc = "done"]
                           ELSE [cb EXCEPT !.pc = "scan", !.cursor = cb.next]
                      ELSE IF Head(cb.res) \in scan.seen
                      THEN [cb EXCEPT !.res = Tail(cb.res)]
                      ELSE [cb EXCEPT !.pc = "mark"]]
    /\ UNCHANGED <<authVars, userRoleProvider, checked, generator, minted,
                   handled, revoked, memory, loading, cleanup>>

\* "seen[k] = struct{}{}", and append's read of the length of keys.
CallbackMark(m) ==
    /\ scan.callback[m].pc = "mark"
    /\ MayRun(m)
    /\ scan' = [scan EXCEPT !.seen = @ \cup {Head(scan.callback[m].res)},
                            !.callback[m].pc = "append",
                            !.callback[m].len = scan.len]
    /\ UNCHANGED <<authVars, userRoleProvider, checked, generator, minted,
                   handled, revoked, memory, loading, cleanup>>

\* append's write of the element behind the length it read, and of the new
\* length.
CallbackAppend(m) ==
    /\ scan.callback[m].pc = "append"
    /\ MayRun(m)
    /\ LET cb == scan.callback[m]
           k == Head(cb.res)
       IN  scan' = [scan EXCEPT
                      !.array = IF cb.len + 1 <= Len(@)
                                THEN [@ EXCEPT ![cb.len + 1] = k]
                                ELSE Append(@, k),
                      !.len = cb.len + 1,
                      !.callback[m] = [cb EXCEPT !.pc = "check",
                                                 !.res = Tail(cb.res)]]
    /\ UNCHANGED <<authVars, userRoleProvider, checked, generator, minted,
                   handled, revoked, memory, loading, cleanup>>

\* A caller that is not inside RefreshAccessToken.
Idle == [pc |-> "idle", refreshToken |-> NoToken,
         info |-> NewRefreshTokenInfo(NoToken, NoUser, "", 0, 0)]

Init ==
    /\ storage = <<>>
    /\ now = 0
    /\ generated = 0
    /\ config \in Configs
    /\ issued = <<>>
    /\ inflight = [p \in Procs |-> Idle]
    /\ userRoleProvider = NoProvider
    /\ checked = NoCheck
    /\ generator = NewGenerator(StyleUUID)
    /\ minted = NoMint
    /\ handled = NoRequest
    /\ revoked = {}
    /\ memory = <<>>
    /\ loading = [p \in Procs |-> NotLoading]
    /\ cleanup = NewCleanup
    /\ scan = NoScan

LoginCall(userID, device) ==
    /\ generated + 2 <= MaxTokens
    /\ LET r == EngineLogin(config, storage, generated,
                            LoginRequest(userID, device), now)
       IN  /\ storage' = r.st
           /\ generated' = r.res.gen
           /\ issued' = IF r.res.ok
                        THEN Issue(Issue(issued, r.res.Token, userID, device,
                                         "access", "login", now),
                                   r.res.RefreshToken, userID, device,
                                   "refresh", r.res.Token, now)
                        ELSE issued
    /\ UNCHANGED <<now, config, inflight>>

Login(userID, device) == LoginCall(userID, device) /\ UNCHANGED otherVars

Verify(token) ==
    /\ storage' = EngineVerify(storage, token, now).st
    /\ UNCHANGED <<now, generated, config, issued, inflight, otherVars>>

LogoutCall(token) ==
    /\ storage' = EngineLogout(storage, token, now).st
    /\ UNCHANGED <<now, generated, config, issued, inflight>>

Logout(token) == LogoutCall(token) /\ UNCHANGED otherVars

LogoutUserCall(userID) ==
    /\ storage' = LogoutByUserID(storage, userID, now).st
    /\ UNCHANGED <<now, generated, config, issued, inflight>>

LogoutUser(userID) == LogoutUserCall(userID) /\ UNCHANGED otherVars

Refresh(refreshToken) ==
    /\ generated + 2 <= MaxTokens
    /\ LET r == RefreshAccessToken(config, storage, generated, refreshToken, now)
       IN  /\ storage' = r.st
           /\ generated' = r.res.gen
           /\ issued' = IF r.res.ok
                        THEN Issue(Issue(issued, r.res.Token, r.res.UserID, "",
                                         "access", refreshToken, now),
                                   r.res.RefreshToken, r.res.UserID, "",
                                   "refresh", refreshToken, now)
                        ELSE issued
    /\ UNCHANGED <<now, config, inflight, otherVars>>

\* Time passes; the store drops the keys whose expiry has passed.
Tick ==
    /\ now < MaxTime
    /\ now' = now + 1
    /\ storage' = ExpireKeys(storage, now + 1)
    /\ UNCHANGED <<generated, config, issued, inflight, otherVars>>

\* A caller enters RefreshAccessToken: the empty-token check, the read of the
\* refresh info and the expiry check. A call that passes them goes on to its
\* writes in a later step; other callers may run in between.
RefreshBegin(p, refreshToken) ==
    /\ inflight[p].pc = "idle"
    /\ LET ri == getRefreshTokenInfo(storage, refreshToken, now)
       IN  IF refreshToken = NoToken \/ ~ri.ok
           THEN UNCHANGED <<storage, inflight>>
           ELSE IF now > ri.v.expires_at
           THEN /\ storage' = StoreDelete(storage, RefreshTokenKey(refreshToken))
                /\ UNCHANGED inflight
           ELSE /\ inflight' = [inflight EXCEPT ![p] =
                                   [pc |-> "write", refreshToken |-> refreshToken,
                                    info |-> ri.v]]
                /\ UNCHANGED storage
    /\ UNCHANGED <<now, generated, config, issued, otherVars>>

\* The caller's remaining statements, with the refresh info it read before.
RefreshFinish(p) ==
    /\ inflight[p].pc = "write"
    /\ generated + 2 <= MaxConcTokens
    /\ LET refreshToken == inflight[p].refreshToken
           r == RefreshWrite(config, storage, generated, refreshToken,
                             inflight[p].info, now)
       IN  /\ storage' = r.st
           /\ generated' = r.res.gen
           /\ issued' = IF r.res.ok
                        THEN Issue(Issue(issued, r.res.Token, r.res.UserID, "",
                                         "access", refreshToken, now),
                                   r.res.RefreshToken, r.res.UserID, "",
                                   "refresh", refreshToken, now)
                        ELSE issued
    /\ inflight' = [inflight EXCEPT ![p] = Idle]
    /\ UNCHANGED <<now, config, otherVars>>

\* The session tokens a successful Login(userID, device) invalidates under
\* the configured login mode.
EvictedBy(userID, device) ==
    {tk \in AccessTokens :
        /\ issued[tk].user = userID
        /\ \/ config.LoginMode = SingleLogin
           \/ config.LoginMode = MutexLogin /\ issued[tk].device = device}

componentVars ==
    <<userRoleProvider, checked, generator, minted, handled, memVars>>

\* The three invalidating calls, with the tokens they have returned for.
RevokingLogin(userID, device) ==
    /\ LoginCall(userID, device)
    /\ revoked' = IF EngineLogin(config, storage, generated,
                                 LoginRequest(userID, device), now).res.ok
                  THEN revoked \cup EvictedBy(userID, device)
                  ELSE revoked
    /\ UNCHANGED componentVars

RevokingLogout(token) ==
    /\ LogoutCall(token)
    /\ revoked' = IF EngineLogout(storage, token, now).ok /\ token \in AccessTokens
                  THEN revoked \cup {token}
                  ELSE revoked
    /\ UNCHANGED componentVars

RevokingLogoutUser(userID) ==
    /\ LogoutUserCall(userID)
    /\ revoked' = IF LogoutByUserID(storage, userID, now).ok
                  THEN revoked \cup {tk \in AccessTokens : issued[tk].user = userID}
                  ELSE revoked
    /\ UNCHANGED componentVars

\* A caller enters Verify: the empty-token check, the read of the login
\* info, the expiry check and the read of the session.
VerifyBegin(p, token) ==
    /\ inflight[p].pc = "idle"
    /\ inflight' =
          IF VerifyResult(storage, token, now).ok
          THEN [inflight EXCEPT ![p] =
                  [pc |-> "exists",
                   session |-> [GetSession(storage, token, now).v
                                   EXCEPT !.last_access = now]]]
          ELSE inflight
    /\ UNCHANGED <<storage, now, generated, config, issued, otherVars>>

\* UpdateSession's existence check; without the session the renewal is given
\* up and Verify returns its success all the same.
VerifyExists(p) ==
    /\ inflight[p].pc = "exists"
    /\ inflight' =
          IF StoreExists(storage, SessionKey(inflight[p].session.token), now)
          THEN [inflight EXCEPT ![p].pc = "set"]
          ELSE [inflight EXCEPT ![p] = Idle]
    /\ UNCHANGED <<storage, now, generated, config, issued, otherVars>>

\* UpdateSession's write.
VerifySet(p) ==
    /\ inflight[p].pc = "set"
    /\ storage' = StoreSet(storage, SessionKey(inflight[p].session.token),
                           MarshalObject(inflight[p].session), TokenExpire, now)
    /\ inflight' = [inflight EXCEPT ![p] = Idle]
    /\ UNCHANGED <<now, generated, config, issued, otherVars>>

\* Login and RefreshAccessToken of the service with the generator as it is
\* configured and a storage whose fault-th Set of the call fails.
FaultyLogin(userID, device, fault) ==
    /\ generated + 2 <= MaxTokens
    /\ LET r == ServiceLoginUnder(config, storage, generator, generated,
                                  LoginRequest(userID, device), now, fault)
       IN  /\ storage' = r.st
           /\ generated' = r.res.gen
           /\ issued' = IF r.res.ok
                        THEN Issue(Issue(issued, r.res.Token, userID, device,
                                         "access", "login", now),
                                   r.res.RefreshToken, userID, device,
                                   "refresh", r.res.Token, now)
                        ELSE issued
    /\ UNCHANGED <<now, config, inflight, otherVars>>

FaultyRefresh(refreshToken, fault) ==
    /\ generated + 2 <= MaxTokens
    /\ LET r == RefreshAccessTokenUnder(config, storage, generator, generated,
                                        refreshToken, now, fault)
       IN  /\ storage' = r.st
           /\ generated' = r.res.gen
           /\ issued' = IF r.res.ok
                        THEN Issue(Issue(issued, r.res.Token, r.res.UserID, "",
                                         "access", refreshToken, now),
                                   r.res.RefreshToken, r.res.UserID, "",
                                   "refresh", refreshToken, now)
                        ELSE issued
    /\ UNCHANGED <<now, config, inflight, otherVars>>

FaultyVerify(token, fault) ==
    /\ storage' = EngineVerifyUnder(storage, token, now, fault).st
    /\ UNCHANGED <<now, generated, config, issued, inflight, otherVars>>

FaultyLogoutUser(userID, failKey, step) ==
    /\ storage' = LogoutByUserIDUnder(storage, userID, now, failKey, step).st
    /\ UNCHANGED <<now, generated, config, issued, inflight, otherVars>>

FaultyLogout(token, fault) ==
    /\ storage' = ServiceLogoutUnder(storage, token, now, fault).st
    /\ UNCHANGED <<now, generated, config, issued, inflight, otherVars>>

\* A caller enters Login: the login-mode eviction and the minting of the
\* session token. The writes follow in a later step; other callers may run
\* in between.
LoginBegin(p, userID, device) ==
    /\ inflight[p].pc = "idle"
    /\ generated < MaxLoginRaceTokens
    /\ LET req == LoginRequest(userID, device)
           m == handleLoginMode(config, storage, req, now)
       IN  /\ storage' = m.st
           /\ generated' = IF m.ok THEN generated + 1 ELSE generated
           /\ inflight' = IF m.ok
                          THEN [inflight EXCEPT ![p] =
                                  [pc |-> "login", req |-> req,
                                   token |-> Generate(generated)]]
                          ELSE inflight
    /\ UNCHANGED <<now, config, issued, otherVars>>

\* The caller's writes, after which Login returns.
LoginFinish(p) ==
    /\ inflight[p].pc = "login"
    /\ LET req == inflight[p].req
           token == inflight[p].token
           w == LoginWrites(config, storage, req, token, NoToken, 0, now, 0)
       IN  /\ storage' = w.st
           /\ issued' = IF w.ok
                        THEN Issue(issued, token, req.UserID, req.Device,
                                   "access", "login", now)
                        ELSE issued
    /\ inflight' = [inflight EXCEPT ![p] = Idle]
    /\ UNCHANGED <<now, generated, config, otherVars>>

Next ==
    \/ \E in \in LoginInputs : Login(in[1], in[2])
    \/ \E token \in TokenInputs : Verify(token)
    \/ \E token \in TokenInputs : Logout(token)
    \/ \E userID \in UserIDs \cup {NoUser} : LogoutUser(userID)
    \/ \E refreshToken \in TokenInputs : Refresh(refreshToken)
    \/ Tick

Spec == Init /\ [][Next]_vars

\* The engine under one login mode, auto-renew on as in the default config.
InitSingle == Init /\ config.LoginMode = SingleLogin /\ config.AutoRenew

SpecSingle == InitSingle /\ [][Next]_vars

InitMutex == Init /\ config.LoginMode = MutexLogin /\ config.AutoRenew

SpecMutex == InitMutex /\ [][Next]_vars

InitMulti == Init /\ config.LoginMode = MultiLogin /\ config.AutoRenew

SpecMulti == InitMulti /\ [][Next]_vars

\* The default login mode with auto-renew switched off.
InitRenewOff == Init /\ config.LoginMode = MultiLogin /\ ~config.AutoRenew

SpecRenewOff == InitRenewOff /\ [][Next]_vars

\* Concurrent callers of RefreshAccessToken: each call is split at the point
\* between its checks and its writes, where the code holds no lock.
InitConc ==
    /\ Init
    /\ config.LoginMode = MultiLogin
    /\ config.AutoRenew
    /\ LoginRefreshExpire(config) > 0

NextConc ==
    \/ \E in \in LoginInputs : Login(in[1], in[2])
    \/ \E p \in Procs, refreshToken \in TokenInputs : RefreshBegin(p, refreshToken)
    \/ \E p \in Procs : RefreshFinish(p)
    \/ Tick

SpecConc == InitConc /\ [][NextConc]_vars

\* User ids are free-form strings and may contain the key separator: "u1:a"
\* is a user id of its own, whose first segment is the user id "u1".
NestedUserIDs == {<<"u1">>, <<"u1", "a">>}

NextNested ==
    \/ \E userID \in NestedUserIDs, device \in Devices : Login(userID, device)
    \/ \E token \in TokenInputs : Verify(token)
    \/ \E userID \in NestedUserIDs : LogoutUser(userID)
    \/ Tick

SpecNested == InitMulti /\ [][NextNested]_vars

\* The permission service on its own: providers come and go, checks run.
InitPerm ==
    /\ InitMulti
    /\ config.RefreshExpire = 0
    /\ config.RememberDays = 0

NextPerm ==
    \/ \E provider \in Providers \cup {NoProvider} : SetUserRoleProvider(provider)
    \/ \E userID \in UserIDs \cup {NoUser}, permission \in PermissionInputs :
          CheckPermissionCall(userID, permission)
    \/ \E userID \in UserIDs \cup {NoUser}, roleID \in RoleInputs :
          CheckRoleCall(userID, roleID)

SpecPerm == InitPerm /\ [][NextPerm]_vars

\* The token generator on its own.
NextGen ==
    \/ \E style \in TokenStyles : SetStyle(style)
    \/ \E fn \in CustomFuncs \cup {NoFunc} : RegisterCustomFunc(fn)
    \/ GenerateCall

SpecGen == InitPerm /\ [][NextGen]_vars

\* The middlewares in front of the engine: users log in and out, the
\* provider changes, requests arrive.
WebProviders ==
    {NoProvider} \cup
    {p \in Providers : p[<<"u2">>] = [ok |-> TRUE, roles |-> <<>>]}

NextWeb ==
    \/ \E userID \in UserIDs : generated < MaxWebTokens /\ Login(userID, "web")
    \/ \E token \in TokenInputs : Logout(token)
    \/ \E provider \in WebProviders : SetUserRoleProvider(provider)
    \/ \E mw \in Middlewares, req \in Requests(TokenInputs) :
          \E items \in RequiredItems(mw) : Request(mw, items, req)

SpecWeb == InitPerm /\ [][NextWeb]_vars

\* Verify calls in flight while logins and logouts run, in single-login
\* mode and without refresh tokens.
InitVerifyConc ==
    /\ InitSingle
    /\ config.RefreshExpire = 0
    /\ config.RememberDays = 0

NextVerifyConc ==
    \/ \E userID \in UserIDs :
          generated < MaxRaceTokens /\ RevokingLogin(userID, "web")
    \/ \E token \in TokenInputs : RevokingLogout(token)
    \/ \E userID \in UserIDs \cup {NoUser} : RevokingLogoutUser(userID)
    \/ \E p \in Procs, token \in TokenInputs : VerifyBegin(p, token)
    \/ \E p \in Procs : VerifyExists(p)
    \/ \E p \in Procs : VerifySet(p)
    \/ Tick

SpecVerifyConc == InitVerifyConc /\ [][NextVerifyConc]_vars

\* Concurrent callers of Login in single-login mode, without refresh tokens:
\* each call is split between its eviction and its writes.
NextLoginConc ==
    \/ \E p \in Procs, userID \in UserIDs, device \in Devices :
          LoginBegin(p, userID, device)
    \/ \E p \in Procs : LoginFinish(p)
    \/ \E token \in TokenInputs : Verify(token)
    \/ \E token \in TokenInputs : Logout(token)
    \/ Tick

SpecLoginConc == InitVerifyConc /\ [][NextLoginConc]_vars

\* The service in single-login mode when things go wrong: the generator may
\* be switched to the custom style with no function registered, and any one
\* Set or Delete of a call may fail.
NextFault ==
    \/ \E style \in {StyleUUID, StyleCustom} : SetStyle(style)
    \/ \E userID \in UserIDs, fault \in StorageFaults :
          FaultyLogin(userID, "web", fault)
    \/ \E refreshToken \in TokenInputs, fault \in StorageFaults :
          FaultyRefresh(refreshToken, fault)
    \/ \E token \in TokenInputs, fault \in StorageFaults :
          FaultyLogout(token, fault)
    \/ Tick

SpecFault == InitSingle /\ [][NextFault]_vars

\* The in-process backend on its own: callers set, get and delete keys while
\* the clock advances and the cleanup goroutine sweeps.
MemoryKeySet == {<<"a", "1">>, <<"b", "1">>}

MemoryValues == {"v1", "v2"}

MemoryExpires == {0, 1}

NextMemory ==
    \/ \E key \in MemoryKeySet, value \in MemoryValues, expire \in MemoryExpires :
          MemSet(key, value, expire)
    \/ \E key \in MemoryKeySet : MemDelete(key)
    \/ \E p \in Procs, key \in MemoryKeySet : MemGetLoad(p, key)
    \/ \E p \in Procs : MemGetDelete(p)
    \/ CleanupTick
    \/ CleanupVisit
    \/ CleanupDelete
    \/ CleanupPanic
    \/ Tick

SpecMemory == InitPerm /\ [][NextMemory]_vars

\* The goroutine is scheduled and its ticker keeps firing: each of its steps
\* is taken if it stays possible.
SpecMemoryLive ==
    /\ SpecMemory
    /\ WF_vars(CleanupTick)
    /\ WF_vars(CleanupVisit)
    /\ WF_vars(CleanupDelete)

\* Keys calls of the remote backend on a cluster.
NextScan ==
    \/ \E layout \in ScanLayouts, mode \in ScanModes : KeysStart(layout, mode)
    \/ \E m \in Masters : CallbackScan(m)
    \/ \E m \in Masters : CallbackCheck(m)
    \/ \E m \in Masters : CallbackMark(m)
    \/ \E m \in Masters : CallbackAppend(m)

SpecScan == InitPerm /\ [][NextScan]_vars

\* Verify calls whose write-back may fail, with logins and the clock.
NextVerifyFault ==
    \/ \E in \in LoginInputs : Login(in[1], in[2])
    \/ \E token \in TokenInputs, fault \in {0, 1} : FaultyVerify(token, fault)
    \/ Tick

SpecVerifyFault == InitPerm /\ [][NextVerifyFault]_vars

\* LogoutByUserID calls during which the storage fails for one index entry.
FailSteps == {"get", "delete"}

NextLogoutFault ==
    \/ \E in \in LoginInputs : Login(in[1], in[2])
    \/ \E userID \in UserIDs :
          \E failKey \in StoreKeys(storage, UserSessionPattern(userID), now)
                             \cup {NoKey},
             step \in FailSteps : FaultyLogoutUser(userID, failKey, step)
    \/ Tick

SpecLogoutFault == InitPerm /\ [][NextLogoutFault]_vars

\* ----------------------------------------------------------------- claims
AllLoginInputs == (UserIDs \cup {NoUser}) \X Devices

LoginResult(userID, device) ==
    EngineLogin(config, storage, generated, LoginRequest(userID, device), now).res

RefreshResult(refreshToken) ==
    RefreshAccessToken(config, storage, generated, refreshToken, now).res

\* What Verify(token) would return in the state the step leads to.
VerifyOkNext(token) == VerifyResult(storage', token, now').ok

VerifyUserNext(token) == VerifyResult(storage', token, now').UserID

RefreshOkNext(token) ==
    RefreshAccessToken(config', storage', generated', token, now').res.ok

\* The lifetime a token was issued with has not run out.
InLifetime(token) == now <= issued[token].time + TokenExpire

\* C1: after every Login that returns success with token T for user U, a
\* Verify(T) issued right away succeeds and returns user id U.
C1_VerifyAfterLogin ==
    [][\A in \in AllLoginInputs :
          (Login(in[1], in[2]) /\ LoginResult(in[1], in[2]).ok)
          => /\ VerifyOkNext(LoginResult(in[1], in[2]).Token)
             /\ VerifyUserNext(LoginResult(in[1], in[2]).Token) = in[1]]_vars

C1_Witness ==
    \E tk \in AccessTokens :
        /\ issued[tk].from = "login"
        /\ issued[tk].time = now
        /\ VerifyOk(tk)
        /\ VerifyUser(tk) = issued[tk].user

\* C2: once Logout(T) has returned, Verify(T) fails, right away and after any
\* later sequence of calls: Logout(T) leaves T failing, and no step (a Verify
\* call or any other) makes a token verify that failed before the step.
C2_VerifyFailsAfterLogout ==
    [][/\ \A token \in TokenInputs :
             (Logout(token) /\ EngineLogout(storage, token, now).ok)
             => ~VerifyOkNext(token)
       /\ \A tk \in TokenInputs : ~VerifyOk(tk) => ~VerifyOkNext(tk)]_vars

\* A token is gone while an older token of the same user still verifies:
\* Logout removed it (LogoutByUserID would have removed both).
C2_Witness ==
    /\ config.LoginMode = MultiLogin
    /\ \E t1 \in AccessTokens, t2 \in AccessTokens :
          /\ issued[t1].user = issued[t2].user
          /\ issued[t2].seq < issued[t1].seq
          /\ InLifetime(t1)
          /\ ~GetLoginInfo(storage, t1, now).ok
          /\ ~VerifyOk(t1)
          /\ VerifyOk(t2)

\* C3: in single-login mode a successful Login of user U makes Verify fail for
\* every token issued to U before, and succeed for the new token.
C3_SingleLoginEvictsAll ==
    [][config.LoginMode = SingleLogin
       => \A in \in AllLoginInputs :
             (Login(in[1], in[2]) /\ LoginResult(in[1], in[2]).ok)
             => /\ \A tk \in AccessTokens :
                      issued[tk].user = in[1] => ~VerifyOkNext(tk)
                /\ VerifyOkNext(LoginResult(in[1], in[2]).Token)]_vars

\* An older token of the user fails although its lifetime lasts and no
\* logout removed its login info, while the user's newer token verifies.
C3_Witness ==
    /\ config.LoginMode = SingleLogin
    /\ \E t1 \in AccessTokens, t2 \in AccessTokens :
          /\ issued[t1].user = issued[t2].user
          /\ issued[t1].seq < issued[t2].seq
          /\ issued[t2].from = "login"
          /\ InLifetime(t1)
          /\ GetLoginInfo(storage, t1, now).ok
          /\ ~VerifyOk(t1)
          /\ VerifyOk(t2)

\* C4: in mutex-login mode a successful Login of user U from device D makes
\* Verify fail for exactly U's earlier tokens with device label D; every
\* other token that verified before still verifies.
C4_MutexLoginEvictsSameDevice ==
    [][config.LoginMode = MutexLogin
       => \A in \in AllLoginInputs :
             (Login(in[1], in[2]) /\ LoginResult(in[1], in[2]).ok)
             => \A tk \in AccessTokens :
                   IF issued[tk].user = in[1] /\ issued[tk].device = in[2]
                   THEN ~VerifyOkNext(tk)
                   ELSE VerifyOk(tk) => VerifyOkNext(tk)]_vars

C4_Witness ==
    /\ config.LoginMode = MutexLogin
    /\ \E t1 \in AccessTokens, t2 \in AccessTokens, t3 \in AccessTokens :
          /\ issued[t1].user = issued[t3].user
          /\ issued[t2].user = issued[t3].user
          /\ issued[t1].device = issued[t3].device
          /\ issued[t2].device # issued[t3].device
          /\ issued[t1].seq < issued[t3].seq
          /\ issued[t2].seq < issued[t3].seq
          /\ InLifetime(t1)
          /\ GetLoginInfo(storage, t1, now).ok
          /\ ~VerifyOk(t1)
          /\ VerifyOk(t2)
          /\ VerifyOk(t3)

\* C5: in multi-login mode every token that verified before a Login call
\* still verifies after it.
C5_MultiLoginEvictsNone ==
    [][config.LoginMode = MultiLogin
       => \A in \in AllLoginInputs :
             Login(in[1], in[2])
             => \A tk \in Tokens : VerifyOk(tk) => VerifyOkNext(tk)]_vars

C5_Witness ==
    /\ config.LoginMode = MultiLogin
    /\ \E t1 \in AccessTokens, t2 \in AccessTokens :
          /\ issued[t1].user = issued[t2].user
          /\ issued[t1].device = issued[t2].device
          /\ issued[t1].seq < issued[t2].seq
          /\ issued[t2].from = "login"
          /\ issued[t2].time = now
          /\ VerifyOk(t1)
          /\ VerifyOk(t2)

\* C6: after a successful RefreshAccessToken(R) that returns A' and R', a
\* further RefreshAccessToken(R) fails and Verify(A') succeeds.
C6_RefreshRotates ==
    [][\A refreshToken \in TokenInputs :
          (Refresh(refreshToken) /\ RefreshResult(refreshToken).ok)
          => /\ ~RefreshOkNext(refreshToken)
             /\ VerifyOkNext(RefreshResult(refreshToken).Token)]_vars

C6_Witness ==
    \E tk \in AccessTokens :
        /\ issued[tk].from \in RefreshTokens
        /\ issued[tk].time = now
        /\ VerifyOk(tk)
        /\ ~RefreshOk(issued[tk].from)

\* C7: a refresh token is exchanged at most once: over all RefreshAccessToken
\* calls on a refresh token R, concurrent ones included, at most one succeeds,
\* so at most one access token was ever minted from R.
C7_RefreshTokenOneTimeUse ==
    \A refreshToken \in RefreshTokens :
        Cardinality({tk \in AccessTokens : issued[tk].from = refreshToken}) <= 1

\* C8: with auto-renew on, when a Verify succeeds less than one token TTL
\* after the previous success (the session's last access), a Verify one tick
\* later, again less than one TTL after a success, succeeds as well.
C8_AutoRenewKeepsTokenAlive ==
    [][config.AutoRenew
       => \A token \in AccessTokens :
             (/\ Verify(token)
              /\ VerifyOk(token)
              /\ now < GetSession(storage, token, now).v.last_access + TokenExpire)
             => VerifyResult(ExpireKeys(storage', now + 1), token, now + 1).ok]_vars

\* C9: with auto-renew off, Verify fails for a token once more than the token
\* TTL has passed since it was issued, whatever Verify calls came in between.
C9_NoRenewExpiresAfterTTL ==
    ~config.AutoRenew
    => \A tk \in AccessTokens :
          now > issued[tk].time + TokenExpire => ~VerifyOk(tk)

\* The token's lifetime has run out and it fails, although a successful
\* Verify after its issue renewed its session, which is still stored.
C9_Witness ==
    /\ ~config.AutoRenew
    /\ \E tk \in AccessTokens :
          /\ now > issued[tk].time + TokenExpire
          /\ GetSession(storage, tk, now).ok
          /\ GetSession(storage, tk, now).v.last_access > issued[tk].time
          /\ ~VerifyOk(tk)

\* C10: with the refresh TTL unset and remember-days positive, a successful
\* Login returns a non-empty refresh token, and RefreshAccessToken on it
\* succeeds with a non-empty access token and a non-empty refresh token that
\* differ from the two Login returned.
C10_RememberDaysRefresh ==
    [][(config.RefreshExpire = 0 /\ config.RememberDays > 0)
       => \A in \in AllLoginInputs :
             (Login(in[1], in[2]) /\ LoginResult(in[1], in[2]).ok)
             => LET l == LoginResult(in[1], in[2])
                    r == RefreshAccessToken(config', storage', generated',
                                            l.RefreshToken, now').res
                IN  /\ l.RefreshToken # NoToken
                    /\ r.ok
                    /\ r.Token # NoToken
                    /\ r.RefreshToken # NoToken
                    /\ r.Token # l.Token
                    /\ r.RefreshToken # l.RefreshToken]_vars

C10_Witness ==
    /\ config.RefreshExpire = 0
    /\ config.RememberDays > 0
    /\ \E a \in AccessTokens, r \in RefreshTokens :
          /\ issued[a].from = r
          /\ issued[r].from \in AccessTokens
          /\ issued[issued[r].from].from = "login"
          /\ issued[a].time = issued[r].time
          /\ VerifyOk(a)

\* The tokens ever issued to a user.
TokensOf(userID) == {tk \in AccessTokens : issued[tk].user = userID}

\* The Session, LoginInfo and index keys of an issued token.
RecordKeys(tk) ==
    {SessionKey(tk), LoginInfoKey(tk), UserSessionKey(issued[tk].user, tk)}

\* C11: after LogoutByUserID(U) has returned success, neither Verify nor
\* GetLoginInfo succeeds for any token that was ever issued to U.
C11_LogoutByUserIDRemovesAll ==
    [][\A userID \in UserIDs :
          (LogoutUser(userID) /\ LogoutByUserID(storage, userID, now).ok)
          => \A tk \in TokensOf(userID) :
                /\ ~VerifyOkNext(tk)
                /\ ~GetLoginInfo(storage', tk, now').ok]_vars

\* C12: LogoutByUserID(U) leaves every other user V alone: each token of V
\* that verified before still verifies and none of V's records is deleted.
C12_LogoutByUserIDIsolation ==
    [][\A userID \in NestedUserIDs :
          (LogoutUser(userID) /\ LogoutByUserID(storage, userID, now).ok)
          => \A tk \in AccessTokens \ TokensOf(userID) :
                /\ VerifyOk(tk) => VerifyOkNext(tk)
                /\ \A key \in RecordKeys(tk) :
                      key \in DOMAIN storage => key \in DOMAIN storage']_vars

C14_CheckPermissionIffGranted ==
    LET a == GetUserRoles(checked.provider, checked.userID)
        listed == UNION {{a.roles[i].Permissions[j] :
                             j \in DOMAIN a.roles[i].Permissions} :
                         i \in DOMAIN a.roles}
    IN  (/\ checked.op = "CheckPermission"
         /\ checked.provider # NoProvider
         /\ checked.userID # NoUser
         /\ checked.arg # ""
         /\ a.ok)
        => /\ checked.err = NoError
           /\ checked.allowed <=> (listed \cap {checked.arg, PermissionWildcard} # {})
           /\ PermissionWildcard \in listed => checked.allowed

\* A permission no role lists by name was granted through the wildcard.
C14_Witness ==
    /\ checked.op = "CheckPermission"
    /\ checked.arg = "delete"
    /\ checked.err = NoError
    /\ checked.allowed

\* C15: with no provider registered, CheckPermission and CheckRole fail: they
\* return an error and no decision, and for non-empty arguments the error is
\* the provider-not-configured one.
C15_NoProviderFails ==
    (checked.op # "none" /\ checked.provider = NoProvider)
    => /\ checked.err # NoError
       /\ ~checked.allowed
       /\ (checked.userID # NoUser /\ checked.arg # "")
          => checked.err = ErrUserRoleProviderEmpty

C15_Witness ==
    /\ checked.op = "CheckRole"
    /\ checked.provider = NoProvider
    /\ checked.userID # NoUser
    /\ checked.arg = "admin"
    /\ checked.err = ErrUserRoleProviderEmpty

\* C16: while the custom style is selected and no custom function is
\* registered, Generate returns an error and no token, never a built-in one.
C16_CustomStyleWithoutFuncFails ==
    (minted.style = StyleCustom /\ minted.customFunc = NoFunc)
    => /\ minted.err = ErrCustomFuncNotRegistered
       /\ minted.token = NoToken

\* Such a call was made after built-in tokens had been handed out.
C16_Witness ==
    /\ minted.style = StyleCustom
    /\ minted.customFunc = NoFunc
    /\ minted.err # NoError
    /\ generated > 0

\* An engine call that was refused before it touched the store.
Refused(ok, st, n) == ~ok /\ n = 0 /\ st = storage

\* C18: an engine call whose required argument is empty -- Login with a nil
\* request or an empty user id, Verify or Logout with an empty token,
\* RefreshAccessToken with an empty refresh token -- returns an error and
\* performs no storage operation.
C18_EmptyArgumentNoStorageOp ==
    /\ LET r == EngineLogin(config, storage, generated, NilRequest, now)
       IN  Refused(r.res.ok, r.st, r.n)
    /\ \A device \in Devices \cup {""} :
          LET r == EngineLogin(config, storage, generated,
                               LoginRequest(NoUser, device), now)
          IN  Refused(r.res.ok, r.st, r.n)
    /\ LET r == EngineVerify(storage, NoToken, now)
       IN  Refused(r.ok, r.st, r.n)
    /\ LET r == EngineLogout(storage, NoToken, now)
       IN  Refused(r.ok, r.st, r.n)
    /\ LET r == RefreshAccessToken(config, storage, generated, NoToken, now)
       IN  Refused(r.res.ok, r.st, r.n)

\* The store holds records, and the same calls with their argument filled in
\* do reach the store.
C18_Witness ==
    /\ \E tk \in AccessTokens :
          /\ EngineVerify(storage, tk, now).ok
          /\ EngineVerify(storage, tk, now).n > 0
          /\ EngineLogout(storage, tk, now).n > 0
    /\ \E tk \in RefreshTokens :
          RefreshAccessToken(config, storage, generated, tk, now).n > 0
    /\ Refused(EngineLogout(storage, NoToken, now).ok,
               EngineLogout(storage, NoToken, now).st,
               EngineLogout(storage, NoToken, now).n)

\* Neither the login info nor the session of the token is in the store.
RecordsAbsent(token) ==
    /\ ~GetLoginInfo(storage, token, now).ok
    /\ ~GetSession(storage, token, now).ok

\* C19: Logout is idempotent. Logout(T) on a token whose login info and
\* session are absent -- never issued, logged out or expired -- returns
\* success and leaves the store as it was, and Logout(T) followed by
\* Logout(T) ends in the state one Logout(T) ends in.
C19_LogoutIdempotent ==
    \A token \in TokenInputs \ {NoToken} :
        LET r1 == EngineLogout(storage, token, now)
            r2 == EngineLogout(r1.st, token, now)
        IN  /\ r1.ok
            /\ r2.ok
            /\ r2.st = r1.st
            /\ RecordsAbsent(token) => r1.st = storage

\* A token that was issued and logged out while another login is still in
\* the store: a further Logout of it succeeds and changes nothing.
C19_Witness ==
    \E tk \in AccessTokens :
        /\ RecordsAbsent(tk)
        /\ now <= issued[tk].time + TokenExpire
        /\ \E other \in AccessTokens \ {tk} : VerifyOk(other)
        /\ EngineLogout(storage, tk, now).ok
        /\ EngineLogout(storage, tk, now).st = storage

\* C20: on a path that is not skipped, RequireAnyPermission,
\* RequireAllPermissions, RequireAnyRole and RequireAllRoles invoke the
\* downstream handler (Next) only if authentication succeeded and the
\* permission or role condition is satisfied; otherwise the unauthorized or
\* the forbidden handler is invoked and Next is not.
C20_NextOnlyWhenAuthorized ==
    (handled.mw # "none" /\ ~handled.skipped)
    => LET called(e) == \E i \in 1..Len(handled.events) : handled.events[i] = e
       IN  IF handled.authOk /\ handled.satisfied
           THEN called("Next")
           ELSE /\ ~called("Next")
                /\ called("Unauthorized") \/ called("Forbidden")

\* C21: between engine operations a Session record exists for a token if
\* and only if a LoginInfo record exists for it, after login, logout,
\* LogoutByUserID and login-mode eviction alike.
C21_SessionIffLoginInfo ==
    \A tk \in Tokens \cup {UnknownToken} :
        StoreExists(storage, SessionKey(tk), now)
            <=> StoreExists(storage, LoginInfoKey(tk), now)

\* The expiry a key has in the store st; -1 when the key is not there.
ExpiryOf(st, key) == IF key \in DOMAIN st THEN st[key].expireTime ELSE -1

\* C22: the Session, the LoginInfo and the user index entry of a token are
\* extended as one unit: after a successful Verify that renews the token
\* the three records carry the same expiry and the same last-access time.
C22_RecordsExtendedTogether ==
    [][\A tk \in AccessTokens :
          (Verify(tk) /\ VerifyOk(tk))
          => /\ ExpiryOf(storage', SessionKey(tk))
                  = ExpiryOf(storage', LoginInfoKey(tk))
             /\ ExpiryOf(storage', SessionKey(tk))
                  = ExpiryOf(storage', UserSessionKey(issued[tk].user, tk))
             /\ GetSession(storage', tk, now').v.last_access
                  = GetLoginInfo(storage', tk, now').v.last_access]_vars

\* C23: invalidation is permanent under concurrency. Once Logout(T),
\* LogoutByUserID or an evicting Login has returned for a token T, Verify(T)
\* never succeeds again, whatever Verify(T) calls were in flight between
\* their reads, their existence check and their renewal write meanwhile.
C23_InvalidationPermanent ==
    \A tk \in revoked : ~VerifyOk(tk)

\* The session tokens of a user that verify now.
Verifiable(userID) ==
    {tk \in AccessTokens : VerifyOk(tk) /\ VerifyUser(tk) = userID}

\* C24: in single-login mode at most one session token per user verifies at
\* any time, over every sequence of Login, Logout and RefreshAccessToken
\* calls executed one at a time.
C24_SingleLoginAtMostOne ==
    config.LoginMode = SingleLogin
    => \A userID \in UserIDs : Cardinality(Verifiable(userID)) <= 1

\* C25: in single-login mode, once every concurrent Login call has returned,
\* at most one session token of a user verifies.
C25_ConcurrentLoginAtMostOne ==
    (config.LoginMode = SingleLogin /\ \A p \in Procs : inflight[p].pc = "idle")
    => \A userID \in UserIDs : Cardinality(Verifiable(userID)) <= 1

\* The refresh tokens issued together with session token tk: by the Login
\* that returned tk, or by the refresh exchange that returned tk.
IssuedWith(tk) ==
    {r \in RefreshTokens :
        \/ issued[r].from = tk
        \/ issued[tk].from \in RefreshTokens /\ issued[r].from = issued[tk].from}

\* C26: after a successful Logout(T) or LogoutByUserID(U), RefreshAccessToken
\* fails on every refresh token issued together with a logged-out session.
C26_LogoutRevokesRefreshToken ==
    [][/\ \A token \in AccessTokens :
             (Logout(token) /\ EngineLogout(storage, token, now).ok)
             => \A r \in IssuedWith(token) : ~RefreshOkNext(r)
       /\ \A userID \in UserIDs :
             (LogoutUser(userID) /\ LogoutByUserID(storage, userID, now).ok)
             => \A token \in AccessTokens :
                   issued[token].user = userID
                   => \A r \in IssuedWith(token) : ~RefreshOkNext(r)]_vars

\* A refresh token that was handed out by a refresh exchange, and one that
\* has itself been exchanged.
FromExchange(r) == issued[r].from \in RefreshTokens

Exchanged(r) == \E tk \in Tokens : issued[tk].from = r

\* C27: a refresh token handed out by RefreshAccessToken carries the full
\* configured refresh lifetime (the refresh TTL, or remember-days x 24h when
\* that is unset) from the moment of the exchange, and can be exchanged until
\* that lifetime has elapsed.
C27_RefreshedTokenFullLifetime ==
    \A r \in RefreshTokens :
        (/\ FromExchange(r)
         /\ ~Exchanged(r)
         /\ now <= issued[r].time + LoginRefreshExpire(config))
        => /\ RefreshOk(r)
           /\ getRefreshTokenInfo(storage, r, now).v.expires_at
                 = issued[r].time + LoginRefreshExpire(config)

\* C28: a RefreshAccessToken(R) that returns an error for an existing,
\* unexpired R leaves R in the store, and a retry can succeed.
C28_FailedRefreshKeepsToken ==
    [][\A r \in RefreshTokens, fault \in StorageFaults :
          (/\ FaultyRefresh(r, fault)
           /\ getRefreshTokenInfo(storage, r, now).ok
           /\ now <= getRefreshTokenInfo(storage, r, now).v.expires_at
           /\ ~RefreshAccessTokenUnder(config, storage, generator, generated,
                                       r, now, fault).res.ok)
          => /\ StoreExists(storage', RefreshTokenKey(r), now')
             /\ RefreshOkNext(r)]_vars

\* What Login(userID, "web") returns under the configured generator and the
\* given storage fault.
FaultyLoginResult(userID, fault) ==
    ServiceLoginUnder(config, storage, generator, generated,
                      LoginRequest(userID, "web"), now, fault)

\* C29: a Login that returns an error because the session token cannot be
\* generated leaves the storage exactly as it was.
C29_FailedLoginLeavesStorage ==
    [][\A userID \in UserIDs, fault \in StorageFaults :
          (/\ FaultyLogin(userID, "web", fault)
           /\ GeneratorGenerate(generator, generated).err # NoError
           /\ ~FaultyLoginResult(userID, fault).res.ok)
          => storage' = storage]_vars

\* The key the k-th Set of Login(userID, "web") writes, for the tokens the
\* call mints.
LoginSetKey(userID, k) ==
    CASE k = 1 -> SessionKey(Generate(generated))
      [] k = 3 -> LoginInfoKey(Generate(generated))
      [] k = 5 -> RefreshTokenKey(Generate(generated + 1))
      [] OTHER -> UserSessionKey(userID, Generate(generated))

\* The number of Sets a Login makes under the configuration.
LoginSets == IF LoginRefreshExpire(config) > 0 THEN 5 ELSE 4

\* C30: when a storage write of Login fails, Login returns an error and no
\* login result, and attempts no later write: the failing Set is the last
\* storage call, and no key of a later step has been written.
C30_LoginStopsAtFailedWrite ==
    [][\A userID \in UserIDs, fault \in StorageFaults :
          (/\ FaultyLogin(userID, "web", fault)
           /\ GeneratorGenerate(generator, generated).err = NoError
           /\ fault \in 1 .. LoginSets)
          => /\ ~FaultyLoginResult(userID, fault).res.ok
             /\ FaultyLoginResult(userID, fault).res.Token = NoToken
             /\ FaultyLoginResult(userID, fault).res.RefreshToken = NoToken
             /\ FaultyLoginResult(userID, fault).n
                   = handleLoginMode(config, storage,
                                     LoginRequest(userID, "web"), now).n + fault
             /\ \A k \in fault .. LoginSets :
                   \/ LoginSetKey(userID, k) \notin DOMAIN storage'
                   \/ \E j \in 1 .. (fault - 1) :
                         LoginSetKey(userID, j) = LoginSetKey(userID, k)]_vars

\* A Login stopped at the write of the login info: the session of a token
\* that was never returned is in the store, its login info is not.
C30_Witness ==
    \E k \in 0 .. MaxTokens :
        /\ Generate(k) \notin Tokens
        /\ SessionKey(Generate(k)) \in DOMAIN storage
        /\ \E userID \in UserIDs :
              UserSessionKey(userID, Generate(k)) \in DOMAIN storage
        /\ LoginInfoKey(Generate(k)) \notin DOMAIN storage

\* C31: every session token that verifies for a user has its entry in that
\* user's token index, also after calls in which a storage call failed.
C31_VerifiableTokenIndexed ==
    \A tk \in AccessTokens :
        VerifyOk(tk)
        => StoreExists(storage, UserSessionKey(VerifyUser(tk), tk), now)

\* C32: in the in-process backend an entry whose ttl has not elapsed stays
\* in the map as it was written, unless the step is an explicit delete of
\* its key or a set of its key.
C32_UnexpiredEntryKept ==
    [][\A key \in DOMAIN memory :
          ~itemExpired(memory[key], now')
          => \/ key \in DOMAIN memory' /\ memory'[key] = memory[key]
             \/ MemDelete(key)
             \/ \E value \in MemoryValues, expire \in MemoryExpires :
                   MemSet(key, value, expire)]_vars

\* The patterns a scan is called with: everything, a prefix, a literal key.
MemoryPatterns == {<<"*">>, <<"a", "*">>, <<"a", "1">>}

\* C33: in the in-process backend an entry whose ttl has elapsed is
\* invisible to every read: Get reports it not found, Exists reports false
\* and Keys omits its key, whether or not it has been swept.
C33_ExpiredEntryInvisible ==
    \A key \in DOMAIN memory :
        itemExpired(memory[key], now)
        => /\ ~MemoryGet(memory, key, now).ok
           /\ ~MemoryExists(memory, key, now)
           /\ \A pattern \in MemoryPatterns : key \notin MemoryKeys(memory, pattern)

ExpiredIn(key) == key \in DOMAIN memory /\ itemExpired(memory[key], now)

\* C34: the sweeper survives its faults: an entry whose ttl has elapsed is
\* eventually removed from the map, also when sweeps have panicked.
C34_ExpiredEventuallyRemoved ==
    \A key \in MemoryKeySet : ExpiredIn(key) ~> ~ExpiredIn(key)

\* A sweep after a panic has found an expired entry and is about to remove it.
C34_Witness ==
    /\ cleanup.panics > 0
    /\ cleanup.pc = "deleting"
    /\ ExpiredIn(cleanup.key)

\* The keys SCAN reports on some master.
RECURSIVE PageKeys(_)
PageKeys(pages) ==
    IF pages = <<>> THEN {}
    ELSE {Head(pages)[i] : i \in 1 .. Len(Head(pages))} \cup PageKeys(Tail(pages))

\* C35: when a Keys call on a cluster has visited every master, what it
\* returns holds every matching key of every master, each one once.
C35_ClusterScanUnionNoDuplicates ==
    (scan.active /\ ScanDone)
    => /\ {ScanKeys[i] : i \in 1 .. Len(ScanKeys)}
            = UNION {PageKeys(scan.pages[m]) : m \in Masters}
       /\ \A i \in 1 .. Len(ScanKeys), j \in 1 .. Len(ScanKeys) :
             ScanKeys[i] = ScanKeys[j] => i = j

\* C36: RefreshAccessToken on a refresh record whose expiresAt has passed
\* fails with the refresh-token-expired error, deletes that record and
\* writes nothing else: no Session, LoginInfo or RefreshTokenInfo appears.
C36_ExpiredRefreshRejected ==
    [][\A r \in TokenInputs :
          (/\ Refresh(r)
           /\ getRefreshTokenInfo(storage, r, now).ok
           /\ now > getRefreshTokenInfo(storage, r, now).v.expires_at)
          => /\ ~RefreshResult(r).ok
             /\ RefreshAccessToken(config, storage, generated, r, now).err
                   = ErrRefreshTokenExpired
             /\ RefreshTokenKey(r) \notin DOMAIN storage'
             /\ DOMAIN storage' = DOMAIN storage \ {RefreshTokenKey(r)}
             /\ \A key \in DOMAIN storage' : storage'[key] = storage[key]
             /\ issued' = issued]_vars

\* A refresh token that storage keeps without expiry, past its expiresAt,
\* never exchanged, and gone from the store: the expired branch removed it.
C36_Witness ==
    \E r \in RefreshTokens :
        /\ config.RefreshExpire = 0
        /\ now > issued[r].time + LoginRefreshExpire(config)
        /\ ~Exchanged(r)
        /\ RefreshTokenKey(r) \notin DOMAIN storage

\* C37: when the write-back of the session fails during Verify of a token
\* that exists and has not expired, Verify still succeeds and returns the
\* token's user; the failure changes neither the result nor the store.
C37_VerifySurvivesFailedRenewal ==
    \A tk \in TokenInputs :
        (/\ GetLoginInfo(storage, tk, now).ok
         /\ now <= GetLoginInfo(storage, tk, now).v.last_access + TokenExpire
         /\ GetSession(storage, tk, now).ok)
        => /\ EngineVerifyUnder(storage, tk, now, 1).ok
           /\ EngineVerifyUnder(storage, tk, now, 1).UserID = issued[tk].user
           /\ EngineVerifyUnder(storage, tk, now, 1).st = storage

\* A token verifies at a time when a working write-back would change the
\* stored session, and the failing one leaves it as it is.
C37_Witness ==
    \E tk \in AccessTokens :
        /\ VerifyOk(tk)
        /\ GetSession(storage, tk, now).v.last_access < now
        /\ EngineVerifyUnder(storage, tk, now, 0).st # storage
        /\ EngineVerifyUnder(storage, tk, now, 1).ok
        /\ EngineVerifyUnder(storage, tk, now, 1).st = storage

\* C38: a LogoutByUserID(U) during which the storage fails for one indexed
\* token of U returns success and logs out every other indexed token of U:
\* its Session, LoginInfo and index entry are gone and it no longer verifies.
C38_BatchSkipsFailedToken ==
    [][\A userID \in UserIDs, step \in FailSteps :
          \A failKey \in StoreKeys(storage, UserSessionPattern(userID), now) :
          FaultyLogoutUser(userID, failKey, step)
          => /\ LogoutByUserIDUnder(storage, userID, now, failKey, step).ok
             /\ \A key \in StoreKeys(storage, UserSessionPattern(userID), now)
                              \ {failKey} :
                   /\ key \notin DOMAIN storage'
                   /\ ~GetLoginInfo(storage', IndexedToken(storage[key].data),
                                    now').ok
                   /\ ~GetSession(storage', IndexedToken(storage[key].data),
                                  now').ok
                   /\ ~VerifyOkNext(IndexedToken(storage[key].data))]_vars

\* Two sessions of one user, both in their lifetime: one was logged out by
\* a batch, the other, for which the storage failed, still verifies.
C38_Witness ==
    \E t1 \in AccessTokens, t2 \in AccessTokens :
        /\ issued[t1].user = issued[t2].user
        /\ InLifetime(t2)
        /\ VerifyOk(t1)
        /\ RecordsAbsent(t2)

\* C39: every RefreshTokenInfo record in the store expires there, at the end
\* of the effective refresh lifetime counted from the time it was written.
C39_RefreshRecordHasTTL ==
    \A r \in RefreshTokens :
        RefreshTokenKey(r) \in DOMAIN storage
        => /\ storage[RefreshTokenKey(r)].expireTime # 0
           /\ storage[RefreshTokenKey(r)].expireTime
                 = issued[r].time + LoginRefreshExpire(config)
====
